---- MODULE Spec2Model ----
(***************************************************************************)
(* VyPR monitoring event consumer (init_verification.py).                  *)
(*                                                                         *)
(* The state is that of one Verification object and of its consumption     *)
(* thread: the thread's local variables that live across iterations of the *)
(* loop, the PropertyMapGroups, and the requests the handler of the last   *)
(* dequeued event posted to the verdict server.  One action is one         *)
(* iteration of the loop of consumption_thread_function on the event a     *)
(* producer has put: the queue is first-in first-out with one consumer, so *)
(* the thread handles the events in the order of the puts.                 *)
(*                                                                         *)
(* SpecQueue adds the Verification object's methods: initialise, which     *)
(* makes the queue and starts a consumption thread, and send_event,        *)
(* end_monitoring, pause_monitoring and resume_monitoring, which put on    *)
(* the queue; there the dequeue and the handler are two steps of a thread. *)
(***************************************************************************)
EXTENDS Integers, Sequences, FiniteSets, TLC

(***************************************************************************)
(* Bounds of the model.                                                    *)
(***************************************************************************)
MaxEvents == 4
MaxCallEvents == 5
MaxCalls == 3             \* calls of send_event, end_monitoring, pause_monitoring, resume_monitoring
MaxInitialise == 2        \* calls of initialise
MaxStatements == 4        \* statements of the function body given to process_block, nested ones included
MaxDepth == 2             \* compound statements nested in one another
MaxFurther == 1           \* statements that follow a nested if in the else clause of an if

(***************************************************************************)
(* Python's None, for the fields that hold a number otherwise.             *)
(***************************************************************************)
None == -2

(***************************************************************************)
(* transaction = -1 before any test_transaction event (an int, which has   *)
(* no isoformat()).                                                        *)
(***************************************************************************)
NoTransaction == -1

(***************************************************************************)
(* The monitored functions and their properties: function_to_maps has one  *)
(* key per function with a .dump file, and under it one PropertyMapGroup   *)
(* per property hash.  Function "s" has the single property "h0", function *)
(* "f" the properties "h1" and "h2"; "g" and "hx" have no PropertyMapGroup.*)
(***************************************************************************)
Functions == {"f", "s"}
PropertiesOf(fn) == IF fn = "s" THEN {"h0"} ELSE {"h1", "h2"}
Hashes == UNION {PropertiesOf(fn) : fn \in Functions}
UnknownFunction == "g"
UnknownHash == "hx"

QdIndices == {0, 1}
Atoms == {0, 1}
Labels == {1, 2}
TxIds == {41, 42}
FunctionIds == {5}
CallIds == {1, 2}

VARIABLES
    pc,                   \* "loop": in the while loop; "done": the loop has exited; "returned": the function has
                          \* returned; "crashed": an exception ended the thread
    continue_monitoring,
    INACTIVE_MONITORING,
    transaction,
    top_pair,             \* the event dequeued last
    maps,                 \* the local variable maps: <<function, hash>> of the group it is bound to, <<>> when unbound
    function_to_maps,     \* verification_obj.function_to_maps
    first_key,            \* function_to_maps[f].keys()[0]
    clock,                \* the time source: one more than the number of events handled
    posted,               \* the requests the last handler posted to the verdict server
    consumption_queue,    \* verification_obj.consumption_queue: entries [ev, n], n the number of the put
    initialisation_failure,
    held,                 \* the entry the thread has dequeued and not yet handled
    parked,               \* the locals of the other consumption threads of the object
    calls,                \* the number of calls of the putting methods so far
    last_got,             \* the put number of the entry dequeued last
    token_at,             \* the put number of the first end-monitoring token, 0 before it
    unfinished_tasks,     \* verification_obj.consumption_queue.unfinished_tasks
    vertex_objs,          \* every CFGVertex constructed, by identity: vertex v is vertex_objs[v]
    edge_objs,            \* every CFGEdge constructed, by identity
    vertices,             \* CFG.vertices: identities of vertices, in the order of the appends
    edges,                \* CFG.edges: identities of edges, in the order of the appends
    stack,                \* the activations of process_block, the running one last
    new_edges,            \* the local new_edges of a statement between lines 256 and 259
    constructs,           \* history: one record per if, try/except and for whose processing has ended
    statements,           \* history: the number of statements process_block has met
    final_map,            \* the result of derive_grammar
    lists,                \* every condition list constructed, by identity: list l is lists[l]
    search                \* an invocation of next_calls: its arguments, its activations, and history

vars == <<pc, continue_monitoring, INACTIVE_MONITORING, transaction,
          top_pair, maps, function_to_maps, first_key, clock, posted,
          consumption_queue, initialisation_failure, held, parked,
          calls, last_got, token_at, unfinished_tasks,
          vertex_objs, edge_objs, vertices, edges, stack, new_edges,
          constructs, statements, final_map, lists, search>>

\* the state of a CFG under construction (construction.py)
scfg_vars == <<vertex_objs, edge_objs, vertices, edges, stack, new_edges,
               constructs, statements, final_map, lists, search>>

\* what the handlers of the consumption thread never touch
object_vars == <<consumption_queue, initialisation_failure, parked, calls, last_got, token_at,
                 unfinished_tasks>>

(***************************************************************************)
(* construction.py: the symbolic control flow graph.                       *)
(*                                                                         *)
(* A vertex or an edge is an object; its identity is its index in          *)
(* vertex_objs or edge_objs, and 0 stands for None.  A vertex holds what   *)
(* CFGVertex holds: the kind of its _name_changed (the synthetic names as  *)
(* in the source, "start" for the empty list of the starting vertex, the   *)
(* kind of statement otherwise), its list of outgoing edges, its           *)
(* _previous_edge, and the post_conditional_vertex / post_try_catch_vertex *)
(* attribute of a head (NoAttribute until line 424/435/515/526 sets it).   *)
(* An edge holds its _condition, the kind of its _instruction, and its two *)
(* states.  A condition is a list object, named by its index in lists, or  *)
(* a value that is not a list (a string, a node of the syntax tree).       *)
(***************************************************************************)
OfList(l) == [list |-> l, string |-> ""]

OfString(s) == [list |-> 0, string |-> s]

\* the edge keeps the list it is given
ListShared(condition, fresh) == condition

\* line 166: `[c for c in condition] if type(condition) is list else condition`;
\* fresh is the identity of the list the comprehension constructs
ListCopied(condition, fresh) == IF condition.list # 0 THEN OfList(fresh) ELSE condition
NoAttribute == -1

\* lines 109-147: CFGVertex.__init__
CFGVertex(name) == [name |-> name, edges |-> <<>>, previous_edge |-> 0, post |-> NoAttribute]

\* lines 162-170: CFGEdge.__init__; the condition is copied, no state is set
CFGEdge(condition, instruction, fresh) ==
    [condition |-> ListCopied(condition, fresh), instruction |-> instruction,
     source |-> 0, target |-> 0]

\* an activation of process_block and, for a block that is the body of a compound
\* statement, the locals of the caller's handler of that statement; passed is the
\* list given as condition (the default of line 221 for the first call) and
\* condition the copy of line 229
TopFrame ==
    [current_vertices |-> <<1>>, passed |-> 1, condition |-> 2, n |-> 0, ends |-> FALSE,
     kind |-> "top", head |-> 0, base |-> <<>>, finals |-> <<>>, has_else |-> FALSE,
     terms |-> <<>>, entries |-> <<>>, unprocessed |-> 0]

\* no statement is between its lines 256 and 259
NoNewEdges == [vertex |-> 0, ids |-> <<>>, kind |-> ""]

NoGrammar == [result |-> "none", rules |-> <<>>]

\* next_calls has not been invoked; frames are the activations of next_calls, the
\* running one last, each with its vertex and the index i of the edge its loop is
\* at (0 before the test of line 735); expanded and steps are history
NoSearch ==
    [function |-> "", frames |-> <<>>, calls |-> <<>>, marked_vertices |-> <<>>,
     invocations |-> 0, expanded |-> <<>>, steps |-> 0]

(***************************************************************************)
(* Lines 211-219: CFG.__init__, before the first call of process_block.    *)
(***************************************************************************)
CFG_init ==
    /\ vertex_objs = <<CFGVertex("start")>>
    /\ edge_objs = <<>>
    /\ vertices = <<1>>
    /\ edges = <<>>
    /\ stack = <<TopFrame>>
    /\ new_edges = NoNewEdges
    /\ constructs = <<>>
    /\ statements = 0
    /\ final_map = NoGrammar
    /\ lists = << <<>>, <<>> >>
    /\ search = NoSearch

(***************************************************************************)
(* Events.  The source's events are tuples selected by their first (or     *)
(* second) element; here every event is a record of one shape, and the     *)
(* fields a tag does not use hold the values of Blank.                     *)
(***************************************************************************)
Blank ==
    [tag |-> "", hashes |-> <<>>, hash |-> "", fn |-> "", scope |-> "", ts |-> 0,
     qd |-> 0, bind |-> 0, label |-> 0, qds |-> <<>>, ids |-> <<>>, atom |-> 0,
     value |-> FALSE, tx |-> 0]

EvEndMonitoring == [Blank EXCEPT !.tag = "end-monitoring"]
EvPause == [Blank EXCEPT !.tag = "inactive-monitoring-start"]
EvResume == [Blank EXCEPT !.tag = "inactive-monitoring-stop"]
EvTestTransaction(tx) == [Blank EXCEPT !.tag = "test_transaction", !.tx = tx]
EvFunction(hashes, fn, scope, ts) ==
    [Blank EXCEPT !.tag = "function", !.hashes = hashes, !.fn = fn, !.scope = scope, !.ts = ts]
EvTrigger(h, fn, qd, bind) ==
    [Blank EXCEPT !.tag = "trigger", !.hash = h, !.fn = fn, !.qd = qd, !.bind = bind]
EvPath(h, fn, label) ==
    [Blank EXCEPT !.tag = "path", !.hash = h, !.fn = fn, !.label = label]
EvInstrument(h, fn, qds, atom, ids, value) ==
    [Blank EXCEPT !.tag = "instrument", !.hash = h, !.fn = fn, !.qds = qds, !.atom = atom,
                  !.ids = ids, !.value = value]
EvTestStatus(h, fn) == [Blank EXCEPT !.tag = "test_status", !.hash = h, !.fn = fn]

HashLists == {<<>>, <<"h1">>, <<"h2">>, <<"h1", "h2">>, <<"h2", "h1">>, <<"h1", UnknownHash>>}

EndMonitoringEvents == {EvEndMonitoring}
PauseEvents == {EvPause}
ResumeEvents == {EvResume}
TestTransactionEvents == {EvTestTransaction(tx) : tx \in TxIds}

FunctionEvents(now) ==
    {EvFunction(L, "f", s, now) : L \in HashLists, s \in {"start", "end"}}
      \cup {EvFunction(<<"h1">>, UnknownFunction, "start", now)}

TriggerEvents ==
    {EvTrigger("h1", "f", q, b) : q \in QdIndices, b \in {0, 1}}
      \cup {EvTrigger("h2", "f", 0, b) : b \in {0, 1}}

PathEvents ==
    {EvPath("h1", "f", l) : l \in Labels} \cup {EvPath("h2", "f", 1), EvPath(UnknownHash, "f", 1)}

InstrumentEvents ==
    {EvInstrument("h1", "f", qds, a, <<7, 8>>, v) :
        qds \in {<<0>>, <<0, 1>>}, a \in Atoms, v \in BOOLEAN}

TestStatusEvents == {EvTestStatus("h1", "f")}

\* every event but end-monitoring
LoopEvents(now) ==
    PauseEvents \cup ResumeEvents \cup TestTransactionEvents \cup FunctionEvents(now)
      \cup TriggerEvents \cup PathEvents \cup InstrumentEvents \cup TestStatusEvents

(***************************************************************************)
(* The events of calls of the single-property function s under a test: the *)
(* transaction, the start and the end of the function, triggers for the    *)
(* first bind variable, path labels and observations of property h0.       *)
(***************************************************************************)
CallFunctionEvents(now) == {EvFunction(<<"h0">>, "s", scope, now) : scope \in {"start", "end"}}

CallTriggerEvents == {EvTrigger("h0", "s", q, 0) : q \in QdIndices}

CallPathEvents == {EvPath("h0", "s", l) : l \in Labels}

CallInstrumentEvents ==
    {EvInstrument("h0", "s", qds, a, <<7, 8>>, v) :
        qds \in {<<0>>, <<0, 1>>}, a \in Atoms, v \in BOOLEAN}

NoEvent == Blank

\* a queue entry: the event and the number of the put that enqueued it
NoEntry == [ev |-> NoEvent, n |-> 0]

(***************************************************************************)
(* Monitors (formula_tree.new_monitor).  The formula of every property is  *)
(* the conjunction of its atoms, all of them single-variable atoms.  In    *)
(* the properties h0 and h1 the base variable of atom a is bind variable   *)
(* a; in h2 every atom is about bind variable 1.                           *)
(*   inst    _monitor_instantiation_time                                   *)
(*   state   _state._state, atom index -> "none" | "T" | "F"               *)
(*   obs     atom_to_observation[a][0], "none" when there is no entry      *)
(*   ppath   atom_to_program_path[a][0], None when there is no entry       *)
(*   coll    collapsing_atom_index                                         *)
(*   verdict _formula.verdict                                              *)
(***************************************************************************)
BaseVariable(h, a) == IF h = "h2" THEN 1 ELSE a

Truth(v) == IF v THEN "T" ELSE "F"

new_monitor(now) ==
    [inst |-> <<now>>,
     state |-> [a \in Atoms |-> "none"],
     obs |-> [a \in Atoms |-> "none"],
     ppath |-> [a \in Atoms |-> None],
     coll |-> None,
     verdict |-> "none"]

\* check_optimised(atom) / check_optimised(lnot(atom)): record the atom's truth value and
\* collapse the formula when that value decides it.
check_optimised(m, a, t) ==
    LET st == [m.state EXCEPT ![a] = t]
        decided == t = "F" \/ \A b \in Atoms : st[b] = "T"
    IN  IF m.coll # None
        THEN m
        ELSE [m EXCEPT !.state = st,
                       !.coll = IF decided THEN a ELSE None,
                       !.verdict = IF decided THEN t ELSE "none"]

\* process_atom_and_value: at most once per (atom, sub index) per monitor.
process_atom_and_value(m, a, value, program_path_length) ==
    IF m.obs[a] # "none" \/ m.coll # None
    THEN m
    ELSE check_optimised([m EXCEPT !.obs[a] = Truth(value), !.ppath[a] = program_path_length],
                         a, Truth(value))

(***************************************************************************)
(* VerdictReport: static_qd_index -> list of verdicts.  A dictionary over  *)
(* bucket indices is a function on QdIndices in which the empty list       *)
(* stands for an absent key: no handler ever stores an empty list.         *)
(***************************************************************************)
EmptyMap == [q \in QdIndices |-> <<>>]

add_verdict(report, q, m) ==
    [report EXCEPT ![q] = Append(@, [verdict |-> m.verdict, obs |-> m.obs, ppath |-> m.ppath,
                                      coll |-> m.coll])]

\* VerdictReport() and VerdictReport.reset(): the report without verdicts
VerdictReport == EmptyMap

VerdictReport_reset(report) == EmptyMap

(***************************************************************************)
(* PropertyMapGroup.__init__                                               *)
(***************************************************************************)
PropertyMapGroup ==
    [static_qd_to_monitors |-> EmptyMap,
     verdict_report |-> VerdictReport,
     latest_time_of_call |-> None,
     program_path |-> <<>>]

(***************************************************************************)
(* Requests posted to the verdict server, one record shape for the three   *)
(* end points; ok tells whether requests.post and the decoding of the      *)
(* answer went through.                                                    *)
(***************************************************************************)
BlankRequest ==
    [kind |-> "", function_name |-> "", time_of_call |-> None, end_time_of_call |-> None,
     program_path |-> <<>>, transaction_time |-> None, property_hash |-> "",
     function_id |-> None, function_call_id |-> None, verdicts |-> EmptyMap, ok |-> TRUE]

IsDatetime(x) == x >= 0

HasGroup(ftm, fn, h) == fn \in DOMAIN ftm /\ h \in DOMAIN ftm[fn]

(***************************************************************************)
(* Lines 182-186: end-monitoring, tested before the paused flag.           *)
(***************************************************************************)
HandleEndMonitoring(e) ==
    /\ e.tag = "end-monitoring"
    /\ top_pair' = e
    /\ continue_monitoring' = FALSE
    /\ pc' = "done"
    /\ posted' = <<>>
    /\ UNCHANGED <<INACTIVE_MONITORING, transaction, maps, function_to_maps, first_key>>

\* the paused consumer resetting every PropertyMapGroup
HandleWhileInactiveResetting(e) ==
    /\ e.tag # "end-monitoring"
    /\ INACTIVE_MONITORING
    /\ top_pair' = e
    /\ INACTIVE_MONITORING' = (e.tag # "inactive-monitoring-stop")
    /\ posted' = <<>>
    /\ function_to_maps' = [fn \in Functions |-> [h \in PropertiesOf(fn) |-> PropertyMapGroup]]
    /\ UNCHANGED <<pc, continue_monitoring, transaction, maps, first_key>>

\* the paused consumer storing the transaction of a test_transaction event
HandleWhileInactiveStoring(e) ==
    /\ e.tag # "end-monitoring"
    /\ INACTIVE_MONITORING
    /\ top_pair' = e
    /\ INACTIVE_MONITORING' = (e.tag # "inactive-monitoring-stop")
    /\ posted' = <<>>
    /\ transaction' = IF e.tag = "test_transaction" THEN e.tx ELSE transaction
    /\ UNCHANGED <<pc, continue_monitoring, maps, function_to_maps, first_key>>

(***************************************************************************)
(* Lines 189-194: monitoring is inactive; only the resume message acts.    *)
(***************************************************************************)
HandleWhileInactive(e) ==
    /\ e.tag # "end-monitoring"
    /\ INACTIVE_MONITORING
    /\ top_pair' = e
    /\ INACTIVE_MONITORING' = (e.tag # "inactive-monitoring-stop")
    /\ posted' = <<>>
    /\ UNCHANGED <<pc, continue_monitoring, transaction, maps, function_to_maps, first_key>>

(***************************************************************************)
(* Lines 195-202: the pause message.                                       *)
(***************************************************************************)
HandlePause(e) ==
    /\ ~INACTIVE_MONITORING
    /\ e.tag = "inactive-monitoring-start"
    /\ top_pair' = e
    /\ INACTIVE_MONITORING' = TRUE
    /\ posted' = <<>>
    /\ UNCHANGED <<pc, continue_monitoring, transaction, maps, function_to_maps, first_key>>

(***************************************************************************)
(* Lines 206-209: test_transaction.                                        *)
(***************************************************************************)
HandleTestTransaction(e) ==
    /\ ~INACTIVE_MONITORING
    /\ e.tag = "test_transaction"
    /\ top_pair' = e
    /\ transaction' = e.tx
    /\ posted' = <<>>
    /\ UNCHANGED <<pc, continue_monitoring, INACTIVE_MONITORING, maps, function_to_maps, first_key>>

(***************************************************************************)
(* Lines 291-309: function start.  StartLoop is the for loop over the      *)
(* property hashes; its result holds the maps after the loop, the group    *)
(* the local variable maps is bound to, and whether a KeyError ended it.   *)
(***************************************************************************)
StartReset(g, ts) ==
    [g EXCEPT !.static_qd_to_monitors = EmptyMap,
              !.verdict_report = VerdictReport_reset(@),
              !.latest_time_of_call = ts]

RECURSIVE StartLoop(_, _, _, _)
StartLoop(st, L, fn, ts) ==
    IF L = <<>> THEN st
    ELSE IF ~HasGroup(st.ftm, fn, Head(L)) THEN [st EXCEPT !.ok = FALSE]
    ELSE StartLoop([ftm |-> [st.ftm EXCEPT ![fn][Head(L)] = StartReset(@, ts)],
                    maps |-> <<fn, Head(L)>>,
                    ok |-> TRUE],
                   Tail(L), fn, ts)

\* lines 306-309: maps is the variable the loop bound last, or one bound by an earlier event
StartClearPath(st) ==
    IF ~st.ok \/ st.maps = <<>>
    THEN [st EXCEPT !.ok = FALSE]
    ELSE [st EXCEPT !.ftm[st.maps[1]][st.maps[2]].program_path = <<>>]

HandleFunctionStart(e) ==
    /\ ~INACTIVE_MONITORING
    /\ e.tag = "function"
    /\ e.scope = "start"
    /\ top_pair' = e
    /\ LET st == StartClearPath(StartLoop([ftm |-> function_to_maps, maps |-> maps, ok |-> TRUE],
                                          e.hashes, e.fn, e.ts))
       IN  /\ function_to_maps' = st.ftm
           /\ maps' = st.maps
           /\ pc' = IF st.ok THEN "loop" ELSE "crashed"
    /\ posted' = <<>>
    /\ UNCHANGED <<continue_monitoring, INACTIVE_MONITORING, transaction, first_key>>

(***************************************************************************)
(* TEST_FRAMEWORK: Verification.__init__ (lines 686-696) reads TEST_DIR,   *)
(* which is bound only when the configuration says test: "yes", so every   *)
(* constructed Verification object runs in test mode.                      *)
(***************************************************************************)
TEST_FRAMEWORK == "yes"

(***************************************************************************)
(* send_function_call_data: the request built at lines 92-98.  It needs    *)
(* isoformat() of the three times (CanSendFunctionCall).                   *)
(***************************************************************************)
CanSendFunctionCall(time_of_call, end_time_of_call, transaction_time) ==
    IsDatetime(transaction_time) /\ IsDatetime(time_of_call) /\ IsDatetime(end_time_of_call)

send_function_call_data(function_name, time_of_call, end_time_of_call, program_path, transaction_time) ==
    [BlankRequest EXCEPT !.kind = "insert_function_call_data",
                         !.function_name = function_name,
                         !.time_of_call = time_of_call,
                         !.end_time_of_call = end_time_of_call,
                         !.program_path = program_path,
                         !.transaction_time = transaction_time]

\* send_verdict_report with the call id of the first call instead of the one passed
send_verdict_report_first_call(verdict_report, property_hash, function_id, function_call_id) ==
    [BlankRequest EXCEPT !.kind = "register_verdicts",
                         !.verdicts = verdict_report,
                         !.property_hash = property_hash,
                         !.function_id = function_id,
                         !.function_call_id = 1]

(***************************************************************************)
(* send_verdict_report: the request built at lines 114-146.                *)
(***************************************************************************)
send_verdict_report(verdict_report, property_hash, function_id, function_call_id) ==
    [BlankRequest EXCEPT !.kind = "register_verdicts",
                         !.verdicts = verdict_report,
                         !.property_hash = property_hash,
                         !.function_id = function_id,
                         !.function_call_id = function_call_id]

\* send_verdict_report letting the exception of a failed post through
send_verdict_report_raises_on_failure(property_hash, failing) == property_hash \in failing

(***************************************************************************)
(* Lines 148-157: the post of send_verdict_report is inside try/except, so *)
(* its failure for the hashes in failing never raises.                     *)
(***************************************************************************)
send_verdict_report_raises(property_hash, failing) == FALSE

\* every monitor registered, collapsed or not
HasVerdictAlways(m) == TRUE

(***************************************************************************)
(* Lines 260-272: the monitors of a bucket that have a collapsing atom are *)
(* registered in the verdict report.                                       *)
(***************************************************************************)
HasVerdict(m) == m.coll # None

RECURSIVE RegisterBucket(_, _, _)
RegisterBucket(report, q, ms) ==
    IF ms = <<>> THEN report
    ELSE RegisterBucket(IF HasVerdict(Head(ms)) THEN add_verdict(report, q, Head(ms)) ELSE report,
                        q, Tail(ms))

RegisterVerdicts(report, static_qd_to_monitors) ==
    [q \in QdIndices |-> RegisterBucket(report, q, static_qd_to_monitors[q])[q]]

\* function end without the reset of the monitors
EndResetKeepsMonitors(g) ==
    [g EXCEPT !.verdict_report = VerdictReport_reset(@),
              !.latest_time_of_call = None]

(***************************************************************************)
(* Lines 274-289: what function end leaves of a group.                     *)
(***************************************************************************)
EndReset(g) ==
    [g EXCEPT !.static_qd_to_monitors = EmptyMap,
              !.verdict_report = VerdictReport_reset(@),
              !.latest_time_of_call = None]

(***************************************************************************)
(* Lines 249-289: the for loop over the property hashes at function end.   *)
(* insertion is the answer to the function call request; failing is the    *)
(* set of hashes whose register_verdicts post raises (swallowed at lines   *)
(* 149-157).                                                               *)
(***************************************************************************)
RECURSIVE EndLoop(_, _, _, _, _)
EndLoop(st, L, fn, insertion, failing) ==
    IF L = <<>> THEN st
    ELSE IF ~HasGroup(st.ftm, fn, Head(L)) THEN [st EXCEPT !.ok = FALSE]
    ELSE LET h == Head(L)
             g == st.ftm[fn][h]
             report == RegisterVerdicts(g.verdict_report, g.static_qd_to_monitors)
             request == [send_verdict_report(report, h, insertion.function_id,
                                             insertion.function_call_id)
                           EXCEPT !.ok = h \notin failing]
         IN  IF send_verdict_report_raises(h, failing)
             THEN [ftm |-> [st.ftm EXCEPT ![fn][h].static_qd_to_monitors = EmptyMap],
                   maps |-> <<fn, h>>,
                   posted |-> Append(st.posted, request),
                   ok |-> FALSE]
             ELSE EndLoop([ftm |-> [st.ftm EXCEPT ![fn][h] = EndReset(g)],
                           maps |-> <<fn, h>>,
                           posted |-> Append(st.posted, request),
                           ok |-> TRUE],
                          Tail(L), fn, insertion, failing)

Range(seq) == {seq[i] : i \in DOMAIN seq}

(***************************************************************************)
(* Lines 223-289: function end.                                            *)
(***************************************************************************)
HandleFunctionEnd(e) ==
    /\ ~INACTIVE_MONITORING
    /\ e.tag = "function"
    /\ e.scope = "end"
    /\ top_pair' = e
    /\ IF e.fn \notin DOMAIN function_to_maps
       THEN /\ pc' = "crashed"
            /\ posted' = <<>>
            /\ UNCHANGED <<maps, function_to_maps>>
       ELSE LET first == function_to_maps[e.fn][first_key[e.fn]]
                latest_time_of_call == first.latest_time_of_call
                program_path == first.program_path
                transaction_time == IF TEST_FRAMEWORK = "yes" THEN transaction ELSE None
                call == send_function_call_data(e.fn, latest_time_of_call, e.ts,
                                                program_path, transaction_time)
            IN  IF ~CanSendFunctionCall(latest_time_of_call, e.ts, transaction_time)
                THEN /\ pc' = "crashed"
                     /\ posted' = <<>>
                     /\ UNCHANGED <<maps, function_to_maps>>
                ELSE \/ /\ pc' = "crashed"
                        /\ posted' = <<[call EXCEPT !.ok = FALSE]>>
                        /\ UNCHANGED <<maps, function_to_maps>>
                     \/ \E fid \in FunctionIds, cid \in CallIds, failing \in SUBSET Range(e.hashes) :
                          LET insertion == [function_id |-> fid, function_call_id |-> cid]
                              answered == [call EXCEPT !.function_id = fid,
                                                       !.function_call_id = cid]
                              st == EndLoop([ftm |-> function_to_maps, maps |-> maps,
                                             posted |-> <<answered>>, ok |-> TRUE],
                                            e.hashes, e.fn, insertion, failing)
                          IN  /\ function_to_maps' = st.ftm
                              /\ maps' = st.maps
                              /\ posted' = st.posted
                              /\ pc' = IF st.ok THEN "loop" ELSE "crashed"
    /\ UNCHANGED <<continue_monitoring, INACTIVE_MONITORING, transaction, first_key>>

(***************************************************************************)
(* Lines 312-331: an event that is specific to a property.  Its first      *)
(* element is taken as the property hash and the rest as the instrument.   *)
(* Raise is the frame of such an event when its handler raises.            *)
(***************************************************************************)
Raise ==
    /\ pc' = "crashed"
    /\ posted' = <<>>
    /\ UNCHANGED <<maps, function_to_maps>>

(***************************************************************************)
(* A resume message while monitoring is active reaches line 320 as the     *)
(* 1-tuple ("inactive-monitoring-stop",): top_pair[1:] is empty and        *)
(* top_pair[0] raises IndexError.                                          *)
(***************************************************************************)
HandleResumeWhileActive(e) ==
    /\ ~INACTIVE_MONITORING
    /\ e.tag = "inactive-monitoring-stop"
    /\ top_pair' = e
    /\ Raise
    /\ UNCHANGED <<continue_monitoring, INACTIVE_MONITORING, transaction, first_key>>

\* the new monitor put in place of the bucket
TriggerZeroReplacing(static_qd_to_monitors, q, now) ==
    [static_qd_to_monitors EXCEPT ![q] = <<new_monitor(now)>>]

(***************************************************************************)
(* Lines 342-349: trigger for the first bind variable.                     *)
(***************************************************************************)
TriggerZero(static_qd_to_monitors, q, now) ==
    [static_qd_to_monitors EXCEPT ![q] = Append(@, new_monitor(now))]

(***************************************************************************)
(* Lines 372-450: the monitor built from monitor m for bind variable k.    *)
(* _state._state is keyed by atom index (lines 383-385, 439): the lookup   *)
(* by the atom itself at line 435, reached for an atom whose base variable *)
(* is bound before k, raises KeyError.  When no atom has such a base       *)
(* variable nothing is copied and the clone is a new monitor with the      *)
(* prefix of m's timestamps extended by the current time.                  *)
(***************************************************************************)
CloneRaises(h, k) == \E a \in Atoms : BaseVariable(h, a) < k

Clone(m, k, now) == [new_monitor(now) EXCEPT !.inst = Append(SubSeq(m.inst, 1, k), now)]

(***************************************************************************)
(* Lines 354-462: trigger for bind variable k > 0 of property h, over the  *)
(* monitors of one bucket, from monitor i on.  The monitors are extended   *)
(* in place, so an exception leaves the extensions made before it.         *)
(***************************************************************************)
RECURSIVE TriggerLoop(_, _, _, _, _, _, _)
TriggerLoop(bucket, i, new_monitors, subsequences_processed, h, k, now) ==
    IF i > Len(bucket) THEN [bucket |-> bucket \o new_monitors, ok |-> TRUE]
    ELSE LET m == bucket[i]
         IN  IF Len(m.inst) = k + 1
             THEN IF SubSeq(m.inst, 1, k) \in subsequences_processed
                  THEN TriggerLoop(bucket, i + 1, new_monitors, subsequences_processed, h, k, now)
                  ELSE IF CloneRaises(h, k)
                  THEN [bucket |-> bucket, ok |-> FALSE]
                  ELSE TriggerLoop(bucket, i + 1, Append(new_monitors, Clone(m, k, now)),
                                   subsequences_processed \cup {SubSeq(m.inst, 1, k)}, h, k, now)
             ELSE IF Len(m.inst) = k
             THEN TriggerLoop([bucket EXCEPT ![i].inst = Append(m.inst, now)], i + 1,
                              new_monitors, subsequences_processed, h, k, now)
             ELSE TriggerLoop(bucket, i + 1, new_monitors, subsequences_processed, h, k, now)

HandleTrigger(e) ==
    /\ ~INACTIVE_MONITORING
    /\ e.tag = "trigger"
    /\ top_pair' = e
    /\ IF ~HasGroup(function_to_maps, e.fn, e.hash)
       THEN Raise
       ELSE LET sqm == function_to_maps[e.fn][e.hash].static_qd_to_monitors
            IN  /\ maps' = <<e.fn, e.hash>>
                /\ posted' = <<>>
                /\ IF e.bind = 0
                   THEN /\ function_to_maps' =
                             [function_to_maps EXCEPT ![e.fn][e.hash].static_qd_to_monitors =
                                 TriggerZero(sqm, e.qd, clock)]
                        /\ pc' = "loop"
                   ELSE IF sqm[e.qd] = <<>>
                   THEN /\ pc' = "crashed"
                        /\ UNCHANGED function_to_maps
                   ELSE LET done == TriggerLoop(sqm[e.qd], 1, <<>>, {}, e.hash, e.bind, clock)
                        IN  /\ function_to_maps' =
                                 [function_to_maps EXCEPT
                                     ![e.fn][e.hash].static_qd_to_monitors[e.qd] = done.bucket]
                            /\ pc' = IF done.ok THEN "loop" ELSE "crashed"
    /\ UNCHANGED <<continue_monitoring, INACTIVE_MONITORING, transaction, first_key>>

(***************************************************************************)
(* Lines 464-467: path.                                                    *)
(***************************************************************************)
HandlePath(e) ==
    /\ ~INACTIVE_MONITORING
    /\ e.tag = "path"
    /\ top_pair' = e
    /\ IF ~HasGroup(function_to_maps, e.fn, e.hash)
       THEN Raise
       ELSE /\ maps' = <<e.fn, e.hash>>
            /\ posted' = <<>>
            /\ pc' = "loop"
            /\ function_to_maps' =
                 [function_to_maps EXCEPT ![e.fn][e.hash].program_path = Append(@, e.label)]
    /\ UNCHANGED <<continue_monitoring, INACTIVE_MONITORING, transaction, first_key>>

(***************************************************************************)
(* Lines 469-512: instrument.  zip pairs the bucket indices with the       *)
(* instrumentation point ids and stops at the shorter list.                *)
(***************************************************************************)
RECURSIVE InstrumentLoop(_, _, _, _, _, _)
InstrumentLoop(static_qd_to_monitors, qds, ids, a, value, program_path_length) ==
    IF qds = <<>> \/ ids = <<>> THEN static_qd_to_monitors
    ELSE LET q == Head(qds)
             bucket == static_qd_to_monitors[q]
             updated == [i \in DOMAIN bucket |->
                            process_atom_and_value(bucket[i], a, value, program_path_length)]
         IN  InstrumentLoop([static_qd_to_monitors EXCEPT ![q] = updated],
                            Tail(qds), Tail(ids), a, value, program_path_length)

\* only the first (static_qd_index, instrumentation point) pair is served
HandleInstrumentFirstPair(e) ==
    /\ ~INACTIVE_MONITORING
    /\ e.tag = "instrument"
    /\ top_pair' = e
    /\ IF ~HasGroup(function_to_maps, e.fn, e.hash)
       THEN Raise
       ELSE LET g == function_to_maps[e.fn][e.hash]
            IN  /\ maps' = <<e.fn, e.hash>>
                /\ posted' = <<>>
                /\ pc' = "loop"
                /\ function_to_maps' =
                     [function_to_maps EXCEPT ![e.fn][e.hash].static_qd_to_monitors =
                         InstrumentLoop(g.static_qd_to_monitors, SubSeq(e.qds, 1, 1), e.ids, e.atom, e.value,
                                        Len(g.program_path))]
    /\ UNCHANGED <<continue_monitoring, INACTIVE_MONITORING, transaction, first_key>>

HandleInstrument(e) ==
    /\ ~INACTIVE_MONITORING
    /\ e.tag = "instrument"
    /\ top_pair' = e
    /\ IF ~HasGroup(function_to_maps, e.fn, e.hash)
       THEN Raise
       ELSE LET g == function_to_maps[e.fn][e.hash]
            IN  /\ maps' = <<e.fn, e.hash>>
                /\ posted' = <<>>
                /\ pc' = "loop"
                /\ function_to_maps' =
                     [function_to_maps EXCEPT ![e.fn][e.hash].static_qd_to_monitors =
                         InstrumentLoop(g.static_qd_to_monitors, e.qds, e.ids, e.atom, e.value,
                                        Len(g.program_path))]
    /\ UNCHANGED <<continue_monitoring, INACTIVE_MONITORING, transaction, first_key>>

(***************************************************************************)
(* Lines 515-554: test_status.  The answer of insert_test_data/ is decoded *)
(* outside any try, so a failed post ends the thread.                      *)
(***************************************************************************)
HandleTestStatus(e) ==
    /\ ~INACTIVE_MONITORING
    /\ e.tag = "test_status"
    /\ top_pair' = e
    /\ IF ~HasGroup(function_to_maps, e.fn, e.hash)
       THEN Raise
       ELSE /\ maps' = <<e.fn, e.hash>>
            /\ UNCHANGED function_to_maps
            /\ \E ok \in BOOLEAN :
                 /\ posted' = <<[BlankRequest EXCEPT !.kind = "insert_test_data", !.ok = ok]>>
                 /\ pc' = IF ok THEN "loop" ELSE "crashed"
    /\ UNCHANGED <<continue_monitoring, INACTIVE_MONITORING, transaction, first_key>>

(***************************************************************************)
(* One iteration of the loop (lines 170-556): the thread is in the loop    *)
(* and takes the event a producer put at time clock.  The handler is the   *)
(* one the tests of lines 182, 189, 196, 206, 216 and 333-515 select.      *)
(***************************************************************************)
Iteration(budget) ==
    /\ pc = "loop"
    /\ clock <= budget
    /\ clock' = clock + 1
    /\ UNCHANGED <<object_vars, held, scfg_vars>>

(***************************************************************************)
(* The state after Verification.__init__ and initialise, with the          *)
(* consumption thread at the top of its loop (lines 167-170).              *)
(***************************************************************************)
Init ==
    /\ pc = "loop"
    /\ continue_monitoring = TRUE
    /\ INACTIVE_MONITORING = FALSE
    /\ transaction = NoTransaction
    /\ top_pair = NoEvent
    /\ maps = <<>>
    /\ function_to_maps = [fn \in Functions |-> [h \in PropertiesOf(fn) |-> PropertyMapGroup]]
    /\ first_key \in {k \in [Functions -> Hashes] : \A fn \in Functions : k[fn] \in PropertiesOf(fn)}
    /\ clock = 1
    /\ posted = <<>>
    /\ consumption_queue = <<>>
    /\ initialisation_failure = FALSE
    /\ held = NoEntry
    /\ parked = <<>>
    /\ calls = 0
    /\ last_got = 0
    /\ token_at = 0
    /\ unfinished_tasks = 0
    /\ CFG_init

(***************************************************************************)
(* Spec: the consumption thread under any MaxEvents events.                *)
(***************************************************************************)
Next ==
    \/ \E e \in EndMonitoringEvents : Iteration(MaxEvents) /\ HandleEndMonitoring(e)
    \/ \E e \in LoopEvents(clock) : Iteration(MaxEvents) /\ HandleWhileInactive(e)
    \/ \E e \in PauseEvents : Iteration(MaxEvents) /\ HandlePause(e)
    \/ \E e \in TestTransactionEvents : Iteration(MaxEvents) /\ HandleTestTransaction(e)
    \/ \E e \in FunctionEvents(clock) : Iteration(MaxEvents) /\ HandleFunctionStart(e)
    \/ \E e \in FunctionEvents(clock) : Iteration(MaxEvents) /\ HandleFunctionEnd(e)
    \/ \E e \in ResumeEvents : Iteration(MaxEvents) /\ HandleResumeWhileActive(e)
    \/ \E e \in TriggerEvents : Iteration(MaxEvents) /\ HandleTrigger(e)
    \/ \E e \in PathEvents : Iteration(MaxEvents) /\ HandlePath(e)
    \/ \E e \in InstrumentEvents : Iteration(MaxEvents) /\ HandleInstrument(e)
    \/ \E e \in TestStatusEvents : Iteration(MaxEvents) /\ HandleTestStatus(e)

Spec == Init /\ [][Next]_vars

(***************************************************************************)
(* SpecCall: the consumption thread under MaxCallEvents events of calls of *)
(* the single-property function.                                           *)
(***************************************************************************)
NextCall ==
    \/ \E e \in TestTransactionEvents : Iteration(MaxCallEvents) /\ HandleTestTransaction(e)
    \/ \E e \in CallFunctionEvents(clock) : Iteration(MaxCallEvents) /\ HandleFunctionStart(e)
    \/ \E e \in CallFunctionEvents(clock) : Iteration(MaxCallEvents) /\ HandleFunctionEnd(e)
    \/ \E e \in CallTriggerEvents : Iteration(MaxCallEvents) /\ HandleTrigger(e)
    \/ \E e \in CallPathEvents : Iteration(MaxCallEvents) /\ HandlePath(e)
    \/ \E e \in CallInstrumentEvents : Iteration(MaxCallEvents) /\ HandleInstrument(e)

SpecCall == Init /\ [][NextCall]_vars

(***************************************************************************)
(* SpecQueue: the Verification object with its queue, its producers and    *)
(* its consumption threads.                                                *)
(*                                                                         *)
(* The variables pc ... maps and held are the locals of the thread that    *)
(* takes the next step; parked holds the locals of the other threads, and  *)
(* Switch makes another thread the one that steps.  function_to_maps and   *)
(* consumption_queue belong to the object and are shared by its threads.   *)
(* A thread reads verification_obj.consumption_queue anew in every         *)
(* iteration (line 174); that read and the get are one step here.          *)
(***************************************************************************)
Locals ==
    [pc |-> pc, continue_monitoring |-> continue_monitoring,
     INACTIVE_MONITORING |-> INACTIVE_MONITORING, transaction |-> transaction,
     top_pair |-> top_pair, maps |-> maps, held |-> held]

\* lines 164-166: the locals of a thread that enters consumption_thread_function
FreshLocals ==
    [pc |-> "loop", continue_monitoring |-> TRUE, INACTIVE_MONITORING |-> FALSE,
     transaction |-> NoTransaction, top_pair |-> NoEvent, maps |-> <<>>, held |-> NoEntry]

Resume(l) ==
    /\ pc' = l.pc
    /\ continue_monitoring' = l.continue_monitoring
    /\ INACTIVE_MONITORING' = l.INACTIVE_MONITORING
    /\ transaction' = l.transaction
    /\ top_pair' = l.top_pair
    /\ maps' = l.maps
    /\ held' = l.held

\* the consumption threads started so far
Threads == IF pc = "unstarted" THEN 0 ELSE Len(parked) + 1

LiveThreads ==
    (IF pc = "loop" THEN 1 ELSE 0) + Cardinality({i \in DOMAIN parked : parked[i].pc = "loop"})

(***************************************************************************)
(* Lines 698-705: __init__ sets initialisation_failure by whether the      *)
(* verdict server answered; no queue and no thread exist yet.              *)
(***************************************************************************)
InitQueue ==
    /\ pc = "unstarted"
    /\ continue_monitoring = TRUE
    /\ INACTIVE_MONITORING = FALSE
    /\ transaction = NoTransaction
    /\ top_pair = NoEvent
    /\ maps = <<>>
    /\ function_to_maps = [fn \in Functions |-> [h \in PropertiesOf(fn) |-> PropertyMapGroup]]
    /\ first_key \in {k \in [Functions -> Hashes] : \A fn \in Functions : k[fn] \in PropertiesOf(fn)}
    /\ clock = 1
    /\ posted = <<>>
    /\ consumption_queue = <<>>
    /\ initialisation_failure \in BOOLEAN
    /\ held = NoEntry
    /\ parked = <<>>
    /\ calls = 0
    /\ last_got = 0
    /\ token_at = 0
    /\ unfinished_tasks = 0
    /\ CFG_init

(***************************************************************************)
(* Lines 771-854: initialise.  Whatever the branch taken for flask_object, *)
(* lines 846-852 bind a new Queue to consumption_queue and start a new     *)
(* thread; neither initialisation_failure nor an earlier thread is looked  *)
(* at, and the entries of the earlier queue are dropped with it.           *)
(***************************************************************************)
initialise ==
    /\ Threads < MaxInitialise
    /\ consumption_queue' = <<>>
    /\ parked' = IF pc = "unstarted" THEN parked ELSE Append(parked, Locals)
    /\ Resume(FreshLocals)
    /\ unfinished_tasks' = 0
    /\ UNCHANGED <<function_to_maps, first_key, clock, posted,
                   initialisation_failure, calls, last_got, token_at>>
    /\ UNCHANGED scfg_vars

\* the scheduler lets another thread take the next step
Switch(i) ==
    /\ i \in DOMAIN parked
    /\ parked' = [parked EXCEPT ![i] = Locals]
    /\ Resume(parked[i])
    /\ UNCHANGED <<function_to_maps, first_key, clock, posted, consumption_queue,
                   initialisation_failure, calls, last_got, token_at, unfinished_tasks>>
    /\ UNCHANGED scfg_vars

\* the guard dropped: the entry is put whatever initialisation_failure is
PutUnguarded(queue, failure, entry) == Append(queue, entry)

(***************************************************************************)
(* Lines 876-894: each of the four methods puts only                       *)
(* `if not (self.initialisation_failure)`.                                 *)
(***************************************************************************)
Put(queue, failure, entry) == IF failure THEN queue ELSE Append(queue, entry)

Call(e) ==
    /\ Threads > 0
    /\ calls < MaxCalls
    /\ calls' = calls + 1
    /\ consumption_queue' = Put(consumption_queue, initialisation_failure, [ev |-> e, n |-> calls + 1])
    /\ token_at' = IF e.tag = "end-monitoring" /\ token_at = 0 /\ ~initialisation_failure
                   THEN calls + 1 ELSE token_at
    /\ unfinished_tasks' = IF initialisation_failure THEN unfinished_tasks ELSE unfinished_tasks + 1
    /\ UNCHANGED <<pc, continue_monitoring, INACTIVE_MONITORING, transaction, top_pair, maps,
                   function_to_maps, first_key, clock, posted,
                   initialisation_failure, held, parked, last_got>>
    /\ UNCHANGED scfg_vars

SentEvents == {EvTrigger("h1", "f", 0, 0), EvTrigger("h1", "f", 0, 1), EvPath("h1", "f", 1)}

send_event(event_description) == Call(event_description)

end_monitoring == Call(EvEndMonitoring)

pause_monitoring == Call(EvPause)

resume_monitoring == Call(EvResume)

\* the newest entry taken instead of the oldest
DequeueNewest(queue) == [entry |-> queue[Len(queue)], rest |-> SubSeq(queue, 1, Len(queue) - 1)]

\* Queue.get on a queue that is not empty
Dequeue(queue) == [entry |-> Head(queue), rest |-> Tail(queue)]

\* a task marked done each time an entry is taken
GetMarkingDone ==
    /\ pc = "loop"
    /\ held = NoEntry
    /\ consumption_queue # <<>>
    /\ held' = Dequeue(consumption_queue).entry
    /\ consumption_queue' = Dequeue(consumption_queue).rest
    /\ last_got' = Dequeue(consumption_queue).entry.n
    /\ unfinished_tasks' = unfinished_tasks - 1
    /\ UNCHANGED <<pc, continue_monitoring, INACTIVE_MONITORING, transaction, top_pair, maps,
                   function_to_maps, first_key, clock, posted,
                   initialisation_failure, parked, calls, token_at>>
    /\ UNCHANGED scfg_vars

(***************************************************************************)
(* Lines 170-179: the thread is at the top of the loop and takes the       *)
(* oldest entry.  On an empty queue get times out, the except continues    *)
(* and nothing changes.                                                    *)
(***************************************************************************)
Get ==
    /\ pc = "loop"
    /\ held = NoEntry
    /\ consumption_queue # <<>>
    /\ held' = Dequeue(consumption_queue).entry
    /\ consumption_queue' = Dequeue(consumption_queue).rest
    /\ last_got' = Dequeue(consumption_queue).entry.n
    /\ UNCHANGED <<pc, continue_monitoring, INACTIVE_MONITORING, transaction, top_pair, maps,
                   function_to_maps, first_key, clock, posted,
                   initialisation_failure, parked, calls, token_at, unfinished_tasks>>
    /\ UNCHANGED scfg_vars

\* lines 182-556 for the entry the thread holds
Handling ==
    /\ pc = "loop"
    /\ held # NoEntry
    /\ held' = NoEntry
    /\ clock' = clock + 1
    /\ UNCHANGED <<object_vars, scfg_vars>>

(***************************************************************************)
(* Lines 558-561: the loop has exited and the thread calls task_done on    *)
(* the queue that is bound to consumption_queue at that moment.            *)
(* Queue.task_done raises ValueError where no task is unfinished.          *)
(***************************************************************************)
task_done ==
    /\ pc = "done"
    /\ IF unfinished_tasks > 0
       THEN unfinished_tasks' = unfinished_tasks - 1 /\ pc' = "returned"
       ELSE unfinished_tasks' = unfinished_tasks /\ pc' = "crashed"
    /\ UNCHANGED <<continue_monitoring, INACTIVE_MONITORING, transaction, top_pair, maps,
                   function_to_maps, first_key, clock, posted, consumption_queue,
                   initialisation_failure, held, parked, calls, last_got, token_at>>
    /\ UNCHANGED scfg_vars

NextQueue ==
    \/ initialise
    \/ \E i \in 1..MaxInitialise : Switch(i)
    \/ \E e \in SentEvents : send_event(e)
    \/ end_monitoring
    \/ pause_monitoring
    \/ resume_monitoring
    \/ Get
    \/ task_done
    \/ Handling /\ HandleEndMonitoring(held.ev)
    \/ Handling /\ HandleWhileInactive(held.ev)
    \/ Handling /\ HandlePause(held.ev)
    \/ Handling /\ HandleResumeWhileActive(held.ev)
    \/ Handling /\ HandleTrigger(held.ev)
    \/ Handling /\ HandlePath(held.ev)

SpecQueue == InitQueue /\ [][NextQueue]_vars

(***************************************************************************)
(* SpecBuild: process_block on the body of a function, statement by        *)
(* statement.  The body is not fixed beforehand: each step meets the next  *)
(* statement of the block being processed, or the end of that block.  A    *)
(* recursive call of process_block on the body of a compound statement is  *)
(* a new activation on the stack; it carries the locals that the caller's  *)
(* handler of the compound statement uses after the call returns.          *)
(***************************************************************************)
SimpleKinds == {"assign", "call", "pass", "return", "raise"}

Top == stack[Len(stack)]

Caller == stack[Len(stack) - 1]

\* process_block may be given a statement: no statement is half handled,
\* and neither derive_grammar nor next_calls has been called yet
Ready == new_edges.vertex = 0 /\ final_map.result = "none" /\ search.invocations = 0

\* the identities of the next k edges constructed
NewIds(k) == [i \in 1..k |-> Len(edge_objs) + i]

\* every edge constructed without its source
EdgesFromNowhere(sources, condition, instruction, target) ==
    [i \in 1..Len(sources) |-> [CFGEdge(condition, instruction, Len(lists) + i) EXCEPT !.target = target]]

\* every edge constructed towards the vertex it leaves
EdgesBack(sources, condition, instruction, target) ==
    [i \in 1..Len(sources) |->
        [CFGEdge(condition, instruction, Len(lists) + i) EXCEPT !.source = sources[i], !.target = sources[i]]]

\* the filter keeping every vertex
NotFiltered(v) == TRUE

\* one edge per vertex of sources, in order, each with its source and target set
EdgesFrom(sources, condition, instruction, target) ==
    [i \in 1..Len(sources) |->
        [CFGEdge(condition, instruction, Len(lists) + i) EXCEPT !.source = sources[i], !.target = target]]

\* the list objects after k edges have been constructed with the condition
WithCopies(condition, k) ==
    IF condition.list # 0 THEN lists \o [i \in 1..k |-> lists[condition.list]] ELSE lists

\* the list objects after process_block has been called with a new list of the
\* elements given: that list, then the copy of line 229
Passing(elements) == lists \o <<elements, elements>>

\* lines 441, 528, 592: condition.append(skip) in the activation that handled the statement
Skipped(skip) == [lists EXCEPT ![Caller.condition] = Append(@, skip)]

\* lines 149-151: add_outgoing_edge for the edges ids, in order
add_outgoing_edge(vobjs, eobjs, ids) ==
    [v \in DOMAIN vobjs |->
        LET FromV(e) == eobjs[e].source = v
        IN  [vobjs[v] EXCEPT !.edges = @ \o SelectSeq(ids, FromV)]]

\* the _previous_edge of a vertex after set_target_state of the edges ids, in order
LastOf(ids, before) == IF ids = <<>> THEN before ELSE ids[Len(ids)]

\* lines 411-415, 503-507: the filter on the vertices that end the branches
NotReturnOrRaise(v) ==
    \/ vertex_objs[v].previous_edge = 0
    \/ edge_objs[vertex_objs[v].previous_edge].instruction \notin {"return", "raise"}

\* the caller's activation after the handler of a compound statement
Returned(current_vertices, ends) ==
    SubSeq(stack, 1, Len(stack) - 2) \o
        <<[Caller EXCEPT !.current_vertices = current_vertices,
                         !.n = @ + 1,
                         !.ends = ends]>>

\* a new activation of process_block for the body of a compound statement
Called(frame) == Append(stack, frame)

AllTrue(flags) == \A i \in DOMAIN flags : flags[i]

(***************************************************************************)
(* Lines 237-256, 265-282, 291-306, 317-332: an assignment, a call, pass,  *)
(* return or raise, up to `self.edges += new_edges`.                       *)
(***************************************************************************)
Statement(kind) ==
    /\ Ready
    /\ statements < MaxStatements
    /\ LET sources == Top.current_vertices
           ids == NewIds(Len(sources))
           eobjs == edge_objs \o EdgesFrom(sources, OfList(Top.condition), kind, 0)
       IN  /\ edge_objs' = eobjs
           /\ lists' = WithCopies(OfList(Top.condition), Len(sources))
           /\ vertex_objs' = Append(add_outgoing_edge(vertex_objs, eobjs, ids), CFGVertex(kind))
           /\ vertices' = Append(vertices, Len(vertex_objs) + 1)
           /\ edges' = edges \o ids
           /\ new_edges' = [vertex |-> Len(vertex_objs) + 1, ids |-> ids, kind |-> kind]
    /\ statements' = statements + 1
    /\ UNCHANGED <<stack, constructs, final_map>>

(***************************************************************************)
(* Lines 258-263, 284-289, 308-315, 334-339: the new edges are directed to *)
(* the new vertex, which becomes the only current vertex.                  *)
(***************************************************************************)
Link ==
    /\ new_edges.vertex # 0
    /\ edge_objs' = [e \in DOMAIN edge_objs |->
                        IF \E i \in DOMAIN new_edges.ids : new_edges.ids[i] = e
                        THEN [edge_objs[e] EXCEPT !.target = new_edges.vertex]
                        ELSE edge_objs[e]]
    /\ vertex_objs' = [vertex_objs EXCEPT ![new_edges.vertex].previous_edge = LastOf(new_edges.ids, @)]
    /\ stack' = [stack EXCEPT ![Len(stack)].current_vertices = <<new_edges.vertex>>,
                              ![Len(stack)].n = @ + 1,
                              ![Len(stack)].ends = new_edges.kind \in {"return", "raise"}]
    /\ new_edges' = NoNewEdges
    /\ UNCHANGED <<vertices, edges, constructs, statements, final_map, lists>>

\* lines 373-382, 454-463, 544-551: the vertex that heads a compound statement and the
\* edges from the current vertices to it, each appended to self.edges as it is made
Headed(name, condition, instruction) ==
    LET sources == Top.current_vertices
        ids == NewIds(Len(sources))
        head == Len(vertex_objs) + 1
        eobjs == edge_objs \o EdgesFrom(sources, condition, instruction, head)
    IN  /\ edge_objs' = eobjs
        /\ vertex_objs' = Append(add_outgoing_edge(vertex_objs, eobjs, ids),
                                 [CFGVertex(name) EXCEPT !.previous_edge = LastOf(ids, 0)])
        /\ edges' = edges \o ids

\* lines 352-371: the condition of the pair with index b: the negations of the
\* earlier tests and, unless it is the final else, its own test
PairCondition(b, is_else) ==
    [i \in 1..(IF is_else THEN b ELSE b + 1) |-> IF i <= b THEN "lnot" ELSE "test"]

(***************************************************************************)
(* Lines 341-387: an if statement, up to the call of process_block on the  *)
(* body of its first pair.                                                 *)
(***************************************************************************)
If ==
    /\ Ready
    /\ statements < MaxStatements
    /\ Len(stack) <= MaxDepth
    /\ Headed("conditional", OfString("conditional"), "control-flow")
    /\ vertices' = Append(vertices, Len(vertex_objs) + 1)
    /\ stack' = Called([TopFrame EXCEPT !.current_vertices = <<Len(vertex_objs) + 1>>,
                                        !.passed = Len(lists) + 1,
                                        !.condition = Len(lists) + 2,
                                        !.kind = "if",
                                        !.head = Len(vertex_objs) + 1,
                                        !.base = <<Len(vertex_objs) + 1>>])
    /\ statements' = statements + 1
    /\ lists' = Passing(PairCondition(0, FALSE))
    /\ UNCHANGED <<new_edges, constructs, final_map>>

(***************************************************************************)
(* Lines 352-371, 386-390: the body of one pair has been processed and the *)
(* next pair is given to process_block.  The else clause of the if last    *)
(* looked at either begins with a statement that is no if (is_else: the    *)
(* whole clause is the block of the pair), or begins with an if, followed  *)
(* by `further` statements: line 358 tests current_conditional[0] only and *)
(* line 362 takes the body of that if as the block of the pair, so the     *)
(* statements that follow it in the clause are in no block given to        *)
(* process_block.                                                          *)
(***************************************************************************)
NextPair(is_else, further) ==
    /\ Ready
    /\ Top.kind = "if"
    /\ Top.n > 0
    /\ ~Top.has_else
    /\ is_else => further = 0
    /\ statements + further <= MaxStatements
    /\ statements' = statements + further
    /\ stack' = [stack EXCEPT ![Len(stack)] =
                    [Top EXCEPT !.current_vertices = Top.base,
                                !.passed = Len(lists) + 1,
                                !.condition = Len(lists) + 2,
                                !.n = 0,
                                !.ends = FALSE,
                                !.finals = @ \o Top.current_vertices,
                                !.has_else = is_else,
                                !.terms = Append(@, Top.ends),
                                !.entries = Append(@, Len(vertex_objs[Top.head].edges)),
                                !.unprocessed = @ + further]]
    /\ lists' = Passing(PairCondition(Len(Top.terms) + 1, is_else))
    /\ UNCHANGED <<vertex_objs, edge_objs, vertices, edges, new_edges,
                   constructs, final_map>>

\* lines 420-435, 512-526: the merge vertex after an if or a try/except whose branches
\* end in the vertices kept; each edge is appended to self.edges, then given its
\* target, then its source
Merged(kept, name, condition) ==
    LET ids == NewIds(Len(kept))
        merge == Len(vertex_objs) + 1
        eobjs == edge_objs \o EdgesFrom(kept, OfString(condition), "control-flow", merge)
    IN  IF kept # <<>>
        THEN /\ edge_objs' = eobjs
             /\ vertex_objs' =
                    Append(add_outgoing_edge([vertex_objs EXCEPT ![Top.head].post = merge], eobjs, ids),
                           [CFGVertex(name) EXCEPT !.previous_edge = LastOf(ids, 0)])
             /\ vertices' = Append(vertices, merge)
             /\ edges' = edges \o ids
        ELSE /\ vertex_objs' = [vertex_objs EXCEPT ![Top.head].post = 0]
             /\ UNCHANGED <<edge_objs, vertices, edges>>

\* the record kept of a compound statement whose processing has ended
Construct(merge, ends) ==
    [kind |-> Top.kind, head |-> Top.head, merge |-> merge, has_else |-> Top.has_else,
     terms |-> Append(Top.terms, Top.ends),
     entries |-> Append(Top.entries, Len(vertex_objs[Top.head].edges)),
     ends |-> ends, unprocessed |-> Top.unprocessed]

\* the head left out although there is no final else
AfterBranchesWithoutHead(final_conditional_vertices, current_vertices, final_else_is_present) ==
    final_conditional_vertices

\* lines 399-405: the head is carried through when there is no final else
AfterBranches(final_conditional_vertices, current_vertices, final_else_is_present) ==
    IF final_else_is_present THEN final_conditional_vertices
    ELSE final_conditional_vertices \o current_vertices

(***************************************************************************)
(* Lines 386-444: the body of the last pair has been processed; the        *)
(* vertices that end the branches, and the head when there is no final     *)
(* else, are filtered and joined in a post-conditional vertex.             *)
(***************************************************************************)
EndIf ==
    /\ Ready
    /\ Top.kind = "if"
    /\ Top.n > 0
    /\ LET final_conditional_vertices == Top.finals \o Top.current_vertices
           current_vertices == AfterBranches(final_conditional_vertices, Top.base, Top.has_else)
           kept == SelectSeq(current_vertices, NotReturnOrRaise)
           ends == Top.has_else /\ AllTrue(Append(Top.terms, Top.ends))
       IN  /\ Merged(kept, "post-conditional", "post-condition")
           /\ stack' = Returned(IF kept # <<>> THEN <<Len(vertex_objs) + 1>> ELSE <<>>, ends)
           /\ lists' = Skipped("skip-conditional")
           /\ constructs' = Append(constructs,
                                   Construct(IF kept # <<>> THEN Len(vertex_objs) + 1 ELSE 0, ends))
    /\ UNCHANGED <<new_edges, statements, final_map>>

(***************************************************************************)
(* Lines 446-484: a try statement, up to the call of process_block on its  *)
(* body.                                                                   *)
(***************************************************************************)
Try ==
    /\ Ready
    /\ statements < MaxStatements
    /\ Len(stack) <= MaxDepth
    /\ Headed("try-catch", OfString("try-catch"), "control-flow")
    /\ vertices' = Append(vertices, Len(vertex_objs) + 1)
    /\ stack' = Called([TopFrame EXCEPT !.current_vertices = <<Len(vertex_objs) + 1>>,
                                        !.passed = Len(lists) + 1,
                                        !.condition = Len(lists) + 2,
                                        !.kind = "try",
                                        !.head = Len(vertex_objs) + 1,
                                        !.base = <<Len(vertex_objs) + 1>>])
    /\ statements' = statements + 1
    /\ lists' = Passing(<<"try-catch-main">>)
    /\ UNCHANGED <<new_edges, constructs, final_map>>

\* each handler processed from the vertices that end what precedes it
NextHandlerChained ==
    /\ Ready
    /\ Top.kind = "try"
    /\ Top.n > 0
    /\ stack' = [stack EXCEPT ![Len(stack)] =
                    [Top EXCEPT !.passed = Len(lists) + 1,
                                !.condition = Len(lists) + 2,
                                !.n = 0,
                                !.ends = FALSE,
                                !.has_else = TRUE,
                                !.terms = Append(@, Top.ends),
                                !.entries = Append(@, Len(vertex_objs[Top.head].edges))]]
    /\ lists' = Passing(<<"try-catch-handler">>)
    /\ UNCHANGED <<vertex_objs, edge_objs, vertices, edges, new_edges,
                   constructs, statements, final_map>>

(***************************************************************************)
(* Lines 483-494: the try body or a handler has been processed and the     *)
(* next handler is given to process_block.  has_else records that the      *)
(* statement has a handler.                                                *)
(***************************************************************************)
NextHandler ==
    /\ Ready
    /\ Top.kind = "try"
    /\ Top.n > 0
    /\ stack' = [stack EXCEPT ![Len(stack)] =
                    [Top EXCEPT !.current_vertices = Top.base,
                                !.passed = Len(lists) + 1,
                                !.condition = Len(lists) + 2,
                                !.n = 0,
                                !.ends = FALSE,
                                !.finals = @ \o Top.current_vertices,
                                !.has_else = TRUE,
                                !.terms = Append(@, Top.ends),
                                !.entries = Append(@, Len(vertex_objs[Top.head].edges))]]
    /\ lists' = Passing(<<"try-catch-handler">>)
    /\ UNCHANGED <<vertex_objs, edge_objs, vertices, edges, new_edges,
                   constructs, statements, final_map>>

(***************************************************************************)
(* Lines 489-529: the last handler has been processed; the vertices that   *)
(* end the body and the handlers are filtered and joined in a              *)
(* post-try-catch vertex.                                                  *)
(***************************************************************************)
EndTry ==
    /\ Ready
    /\ Top.kind = "try"
    /\ Top.n > 0
    /\ Top.has_else
    /\ LET final_try_catch_vertices == Top.finals \o Top.current_vertices
           kept == SelectSeq(final_try_catch_vertices, NotReturnOrRaise)
           ends == AllTrue(Append(Top.terms, Top.ends))
       IN  /\ Merged(kept, "post-try-catch", "post-try-catch")
           /\ stack' = Returned(IF kept # <<>> THEN <<Len(vertex_objs) + 1>> ELSE <<>>, ends)
           /\ lists' = Skipped("skip-try-catch")
           /\ constructs' = Append(constructs,
                                   Construct(IF kept # <<>> THEN Len(vertex_objs) + 1 ELSE 0, ends))
    /\ UNCHANGED <<new_edges, statements, final_map>>

(***************************************************************************)
(* Lines 531-561: a for statement, up to the call of process_block on its  *)
(* body: the loop vertex, then the post-loop vertex.                       *)
(***************************************************************************)
For ==
    /\ Ready
    /\ statements < MaxStatements
    /\ Len(stack) <= MaxDepth
    /\ LET sources == Top.current_vertices
           ids == NewIds(Len(sources))
           head == Len(vertex_objs) + 1
           eobjs == edge_objs \o EdgesFrom(sources, OfString("iter"), "loop", head)
       IN  /\ edge_objs' = eobjs
           /\ vertex_objs' = add_outgoing_edge(vertex_objs, eobjs, ids) \o
                                <<[CFGVertex("loop") EXCEPT !.previous_edge = LastOf(ids, 0)],
                                  CFGVertex("post-loop")>>
           /\ edges' = edges \o ids
           /\ vertices' = vertices \o <<head, head + 1>>
           /\ stack' = Called([TopFrame EXCEPT !.current_vertices = <<head>>,
                                               !.passed = Len(lists) + 1,
                                               !.condition = Len(lists) + 2,
                                               !.kind = "for",
                                               !.head = head,
                                               !.base = <<head>>])
    /\ statements' = statements + 1
    /\ lists' = Passing(<<"enter-loop">>)
    /\ UNCHANGED <<new_edges, constructs, final_map>>

\* lines 570-582, 607-612: for final_vertex in final_vertices: for base_vertex in
\* current_vertices: the pair with index k
FinalOf(finals, base, k) == finals[((k - 1) \div Len(base)) + 1]

BaseOf(base, k) == base[((k - 1) % Len(base)) + 1]

\* the loop-skip edge directed to the first vertex that ends the body (line 586)
SkipEdgeToFinal(head, post, final_vertices) ==
    [CFGEdge(OfString("lnot iter"), "loop-skip", 0)
        EXCEPT !.source = head, !.target = IF final_vertices = <<>> THEN post ELSE final_vertices[1]]

\* lines 584-587: the loop-skip edge, from the loop vertex to the post-loop vertex
SkipEdge(head, post, final_vertices) ==
    [CFGEdge(OfString("lnot iter"), "loop-skip", 0) EXCEPT !.source = head, !.target = post]

(***************************************************************************)
(* Lines 560-595: the body of the for statement has been processed.  Each  *)
(* vertex that ends the body gets a loop-jump edge to the loop vertex and  *)
(* a post-loop edge, both appended to self.edges; the loop-skip edge of    *)
(* lines 584-587 is linked to the loop and post-loop vertices and is not   *)
(* appended to self.edges.                                                 *)
(***************************************************************************)
EndFor ==
    /\ Ready
    /\ Top.kind = "for"
    /\ Top.n > 0
    /\ LET final_vertices == Top.current_vertices
           head == Top.head
           post == Top.head + 1
           ids == NewIds(2 * Len(final_vertices))
           skip_edge == Len(edge_objs) + 2 * Len(final_vertices) + 1
           made == [k \in 1..(2 * Len(final_vertices)) |->
                      IF k % 2 = 1
                      THEN [CFGEdge(OfString("loop-jump"), "loop-jump", 0)
                               EXCEPT !.source = final_vertices[(k + 1) \div 2], !.target = head]
                      ELSE [CFGEdge(OfString("post-loop"), "post-loop", 0)
                               EXCEPT !.source = final_vertices[k \div 2], !.target = post]]
           eobjs == (edge_objs \o made) \o
                        <<SkipEdge(head, post, final_vertices)>>
           linked == add_outgoing_edge(vertex_objs, eobjs, Append(ids, skip_edge))
       IN  /\ edge_objs' = eobjs
           /\ vertex_objs' = [linked EXCEPT
                                ![head].previous_edge =
                                    IF final_vertices = <<>> THEN @ ELSE skip_edge - 2,
                                ![post].previous_edge = skip_edge]
           /\ edges' = edges \o ids
           /\ stack' = Returned(<<post>>, FALSE)
           /\ lists' = Skipped("skip-for-loop")
           /\ constructs' = Append(constructs, Construct(post, FALSE))
    /\ UNCHANGED <<vertices, new_edges, statements, final_map>>

(***************************************************************************)
(* Lines 597-605: a while statement: no vertex is made; its body is        *)
(* processed from the current vertices.                                    *)
(***************************************************************************)
While ==
    /\ Ready
    /\ statements < MaxStatements
    /\ Len(stack) <= MaxDepth
    /\ stack' = Called([TopFrame EXCEPT !.current_vertices = Top.current_vertices,
                                        !.passed = Len(lists) + 1,
                                        !.condition = Len(lists) + 2,
                                        !.kind = "while",
                                        !.base = Top.current_vertices])
    /\ statements' = statements + 1
    /\ lists' = Passing(<<"while">>)
    /\ UNCHANGED <<vertex_objs, edge_objs, vertices, edges, new_edges, constructs, final_map>>

(***************************************************************************)
(* Lines 604-614: the body of the while statement has been processed; a    *)
(* loop-jump edge leads from each vertex that ends it to each vertex the   *)
(* statement was reached from, and the vertices that end the body are the  *)
(* current vertices.                                                       *)
(***************************************************************************)
EndWhile ==
    /\ Ready
    /\ Top.kind = "while"
    /\ Top.n > 0
    /\ LET final_vertices == Top.current_vertices
           base == Top.base
           ids == NewIds(Len(final_vertices) * Len(base))
           eobjs == edge_objs \o
                       [k \in 1..(Len(final_vertices) * Len(base)) |->
                           [CFGEdge(OfString("for"), "loop-jump", 0)
                               EXCEPT !.source = FinalOf(final_vertices, base, k),
                                      !.target = BaseOf(base, k)]]
           linked == add_outgoing_edge(vertex_objs, eobjs, ids)
       IN  /\ edge_objs' = eobjs
           /\ vertex_objs' =
                [v \in DOMAIN linked |->
                    LET ToV(e) == eobjs[e].target = v
                    IN  [linked[v] EXCEPT !.previous_edge = LastOf(SelectSeq(ids, ToV), @)]]
           /\ edges' = edges \o ids
           /\ stack' = Returned(final_vertices, FALSE)
    /\ UNCHANGED <<vertices, new_edges, constructs, statements, final_map, lists>>

(***************************************************************************)
(* derive_grammar (lines 618-729).  A symbol is an edge, a vertex or None. *)
(* RulesOf gives the rules of one vertex, or Raised where the source       *)
(* indexes a list past its end.                                            *)
(***************************************************************************)
Edge(e) == <<"edge", e>>

Vertex(v) == <<"vertex", v>>

NoSymbol == <<"None", 0>>

Raised == <<<<<<"IndexError", 0>>>>>>

NameOfTarget(e) == vertex_objs[edge_objs[e].target].name

TargetOf(e) == edge_objs[e].target

Synthetic == {"conditional", "loop", "try-catch", "post-conditional", "post-loop", "post-try-catch"}

\* list(filter(...))[0] for the filtered list, 0 where the list is empty
FirstEdge(filtered) == IF filtered = <<>> THEN 0 ELSE filtered[1]

ToLoop(e) == NameOfTarget(e) = "loop"

NotToLoop(e) == NameOfTarget(e) # "loop"

ToPostLoop(e) == NameOfTarget(e) = "post-loop"

NotToPostLoop(e) == NameOfTarget(e) # "post-loop"

\* lines 660-664, 721-725
PlainRule(e) ==
    IF NameOfTarget(e) \in {"post-conditional", "post-loop", "post-try-catch"}
    THEN <<<<Edge(e)>>>>
    ELSE <<<<Edge(e), Vertex(TargetOf(e))>>>>

\* lines 666-682: the vertex leads into a conditional or a try-catch
HeadRule(e) ==
    IF vertex_objs[TargetOf(e)].post > 0
    THEN <<<<Edge(e), Vertex(TargetOf(e)), Vertex(vertex_objs[TargetOf(e)].post)>>>>
    ELSE <<<<Edge(e), Vertex(TargetOf(e))>>>>

\* lines 640-664: a vertex of a statement that does not lead into a conditional or try-catch
NormalRule(es) ==
    IF NameOfTarget(es[1]) \in {"post-conditional", "post-try-catch"}
    THEN <<<<Edge(es[1])>>>>
    ELSE IF \E i \in DOMAIN es : ToPostLoop(es[i])
    THEN IF FirstEdge(SelectSeq(es, ToLoop)) = 0 \/ FirstEdge(SelectSeq(es, NotToLoop)) = 0
         THEN Raised
         ELSE <<<<Edge(FirstEdge(SelectSeq(es, ToLoop))), Vertex(TargetOf(FirstEdge(SelectSeq(es, ToLoop))))>>,
                <<Edge(FirstEdge(SelectSeq(es, NotToLoop)))>>>>
    ELSE IF NameOfTarget(es[1]) = "loop"
    THEN IF FirstEdge(SelectSeq(vertex_objs[TargetOf(es[1])].edges, ToPostLoop)) = 0
         THEN Raised
         ELSE <<<<Edge(es[1]), Vertex(TargetOf(es[1])),
                  Vertex(TargetOf(FirstEdge(SelectSeq(vertex_objs[TargetOf(es[1])].edges, ToPostLoop))))>>>>
    ELSE PlainRule(es[1])

\* lines 684-691
LoopRule(es) ==
    IF FirstEdge(SelectSeq(es, ToPostLoop)) = 0 \/ FirstEdge(SelectSeq(es, NotToPostLoop)) = 0
    THEN Raised
    ELSE <<<<Edge(FirstEdge(SelectSeq(es, ToPostLoop)))>>,
           <<Edge(FirstEdge(SelectSeq(es, NotToPostLoop))), Vertex(TargetOf(FirstEdge(SelectSeq(es, NotToPostLoop))))>>>>

\* lines 694-703
BranchRules(es) ==
    [i \in DOMAIN es |->
        IF NameOfTarget(es[i]) = "post-conditional"
        THEN <<Edge(es[i])>>
        ELSE <<Edge(es[i]), Vertex(TargetOf(es[i]))>>]

\* the post-conditional vertex before a loop always given the one-rule form
PostConditionalRuleSingle(es) ==
    IF NameOfTarget(es[1]) = "post-conditional"
    THEN <<<<Edge(es[1])>>>>
    ELSE <<<<Edge(es[1]), Vertex(TargetOf(es[1]))>>>>

\* lines 705-717
PostConditionalRule(es) ==
    IF NameOfTarget(es[1]) = "loop"
    THEN IF Len(es) < 2
         THEN Raised
         ELSE <<<<Edge(es[1]), Vertex(TargetOf(es[1]))>>, <<Edge(es[2])>>>>
    ELSE IF NameOfTarget(es[1]) = "post-conditional"
    THEN <<<<Edge(es[1])>>>>
    ELSE <<<<Edge(es[1]), Vertex(TargetOf(es[1]))>>>>

\* lines 626-725: the body of `for vertex in self.vertices`
RulesOf(v) ==
    LET es == vertex_objs[v].edges
        name == vertex_objs[v].name
    IN  IF es = <<>> THEN <<<<NoSymbol>>>>
        ELSE IF name \notin Synthetic
        THEN IF NameOfTarget(es[1]) \in {"conditional", "try-catch"}
             THEN HeadRule(es[1])
             ELSE NormalRule(es)
        ELSE IF name = "loop" THEN LoopRule(es)
        ELSE IF name \in {"conditional", "try-catch"} THEN BranchRules(es)
        ELSE IF name = "post-conditional" THEN PostConditionalRule(es)
        ELSE PlainRule(es[1])

\* process_block has returned to its caller and the CFG object is as it left it
Produced == Len(stack) = 1 /\ new_edges.vertex = 0

(***************************************************************************)
(* derive_grammar on the CFG that process_block produced: the map from     *)
(* every vertex of self.vertices to its rules, or the exception that the   *)
(* first vertex with a missing edge raises.                                *)
(***************************************************************************)
derive_grammar ==
    /\ Produced
    /\ final_map.result = "none"
    /\ search.invocations = 0
    /\ final_map' =
          IF \E i \in DOMAIN vertices : RulesOf(vertices[i]) = Raised
          THEN [result |-> "IndexError", rules |-> <<>>]
          ELSE [result |-> "returned", rules |-> [v \in DOMAIN vertex_objs |-> RulesOf(v)]]
    /\ UNCHANGED <<vertex_objs, edge_objs, vertices, edges, stack, new_edges,
                   constructs, statements, lists>>

\* no Verification object exists while the CFG of a function is constructed
NoVerification ==
    /\ pc = "unstarted"
    /\ continue_monitoring = TRUE
    /\ INACTIVE_MONITORING = FALSE
    /\ transaction = NoTransaction
    /\ top_pair = NoEvent
    /\ maps = <<>>
    /\ function_to_maps = [fn \in Functions |-> [h \in PropertiesOf(fn) |-> PropertyMapGroup]]
    /\ first_key = [fn \in Functions |-> IF fn = "s" THEN "h0" ELSE "h1"]
    /\ clock = 1
    /\ posted = <<>>
    /\ consumption_queue = <<>>
    /\ initialisation_failure = FALSE
    /\ held = NoEntry
    /\ parked = <<>>
    /\ calls = 0
    /\ last_got = 0
    /\ token_at = 0
    /\ unfinished_tasks = 0

consumer_vars == <<pc, continue_monitoring, INACTIVE_MONITORING, transaction,
                   top_pair, maps, function_to_maps, first_key, clock, posted,
                   consumption_queue, initialisation_failure, held, parked,
                   calls, last_got, token_at, unfinished_tasks>>

InitBuild == NoVerification /\ CFG_init

NextBuild ==
    \/ \E kind \in SimpleKinds : Statement(kind) /\ UNCHANGED <<consumer_vars, search>>
    \/ Link /\ UNCHANGED <<consumer_vars, search>>
    \/ If /\ UNCHANGED <<consumer_vars, search>>
    \/ \E is_else \in BOOLEAN : \E further \in 0..MaxFurther :
          NextPair(is_else, further) /\ UNCHANGED <<consumer_vars, search>>
    \/ EndIf /\ UNCHANGED <<consumer_vars, search>>
    \/ Try /\ UNCHANGED <<consumer_vars, search>>
    \/ NextHandler /\ UNCHANGED <<consumer_vars, search>>
    \/ EndTry /\ UNCHANGED <<consumer_vars, search>>
    \/ For /\ UNCHANGED <<consumer_vars, search>>
    \/ EndFor /\ UNCHANGED <<consumer_vars, search>>
    \/ While /\ UNCHANGED <<consumer_vars, search>>
    \/ EndWhile /\ UNCHANGED <<consumer_vars, search>>
    \/ derive_grammar /\ UNCHANGED <<consumer_vars, search>>

SpecBuild == InitBuild /\ [][NextBuild]_vars

(***************************************************************************)
(* next_calls (lines 731-752) on the CFG that process_block produced,      *)
(* invoked with a vertex of the CFG, a function name and two new lists as  *)
(* accumulators.  A call statement is a call of f, an assignment is        *)
(* `x = g()`.  The recursion is a stack of activations; one step is the    *)
(* test of line 735 with the append of line 736, one round of the loop of  *)
(* line 738, or the return of an activation.                               *)
(***************************************************************************)
MaxInvocations == 1

\* the function names next_calls is invoked with
FunctionNames == {"f"}

\* lines 739-745: the edge models a call of function
ModelsCall(e, function) ==
    \/ edge_objs[e].instruction = "call" /\ function = "f"
    \/ edge_objs[e].instruction = "assign" /\ function = "g"

Running == search.frames[Len(search.frames)]

Marked(v) == \E i \in DOMAIN search.marked_vertices : search.marked_vertices[i] = v

\* the activation at the loop of line 738 whether or not the vertex is marked
EnterUnmarked ==
    /\ search.frames # <<>>
    /\ Running.i = 0
    /\ search' = [search EXCEPT !.frames[Len(search.frames)].i = 1,
                                !.expanded = Append(@, Running.vertex),
                                !.steps = @ + 1]
    /\ UNCHANGED <<vertex_objs, edge_objs, vertices, edges, stack, new_edges,
                   constructs, statements, final_map, lists>>

next_calls(vertex, function) ==
    /\ Produced
    /\ final_map.result = "none"
    /\ search.invocations < MaxInvocations
    /\ search.frames = <<>>
    /\ search' = [NoSearch EXCEPT !.function = function,
                                  !.frames = <<[vertex |-> vertex, i |-> 0]>>,
                                  !.invocations = search.invocations + 1]
    /\ UNCHANGED <<vertex_objs, edge_objs, vertices, edges, stack, new_edges,
                   constructs, statements, final_map, lists>>

\* lines 735-737: the vertex is not marked: it is marked and the loop begins
Enter ==
    /\ search.frames # <<>>
    /\ Running.i = 0
    /\ ~Marked(Running.vertex)
    /\ search' = [search EXCEPT !.frames[Len(search.frames)].i = 1,
                                !.marked_vertices = Append(@, Running.vertex),
                                !.expanded = Append(@, Running.vertex),
                                !.steps = @ + 1]
    /\ UNCHANGED <<vertex_objs, edge_objs, vertices, edges, stack, new_edges,
                   constructs, statements, final_map, lists>>

\* lines 738-749: one edge of the vertex: appended to calls, or its target searched
Examine ==
    /\ search.frames # <<>>
    /\ Running.i >= 1
    /\ Running.i <= Len(vertex_objs[Running.vertex].edges)
    /\ LET edge == vertex_objs[Running.vertex].edges[Running.i]
           advanced == [search.frames EXCEPT ![Len(search.frames)].i = @ + 1]
       IN  search' =
              IF ModelsCall(edge, search.function)
              THEN [search EXCEPT !.frames = advanced,
                                  !.calls = Append(@, edge),
                                  !.steps = @ + 1]
              ELSE [search EXCEPT !.frames = Append(advanced,
                                                    [vertex |-> edge_objs[edge].target, i |-> 0]),
                                  !.steps = @ + 1]
    /\ UNCHANGED <<vertex_objs, edge_objs, vertices, edges, stack, new_edges,
                   constructs, statements, final_map, lists>>

\* lines 750-751 and the end of the loop: the activation returns
Return ==
    /\ search.frames # <<>>
    /\ \/ Running.i = 0 /\ Marked(Running.vertex)
       \/ Running.i > Len(vertex_objs[Running.vertex].edges)
    /\ search' = [search EXCEPT !.frames = SubSeq(@, 1, Len(@) - 1),
                                !.steps = @ + 1]
    /\ UNCHANGED <<vertex_objs, edge_objs, vertices, edges, stack, new_edges,
                   constructs, statements, final_map, lists>>

NextSearch ==
    \/ NextBuild
    \/ \E v \in DOMAIN vertex_objs, function \in FunctionNames :
          next_calls(v, function) /\ UNCHANGED consumer_vars
    \/ Enter /\ UNCHANGED consumer_vars
    \/ Examine /\ UNCHANGED consumer_vars
    \/ Return /\ UNCHANGED consumer_vars

SpecSearch == InitBuild /\ [][NextSearch]_vars

\* an invocation of next_calls that has begun keeps running: the interpreter takes
\* the next step of the thread that called it
SearchStep == (Enter \/ Examine \/ Return) /\ UNCHANGED consumer_vars

SpecSearchFair == SpecSearch /\ WF_vars(SearchStep)

(***************************************************************************)
(* Properties.  top_pair is the event the last iteration took; an event    *)
(* taken while monitoring was inactive was discarded and left the flag     *)
(* set, so with the flag clear a function event in top_pair was handled.   *)
(***************************************************************************)
FunctionStartHandled ==
    top_pair.tag = "function" /\ top_pair.scope = "start" /\ ~INACTIVE_MONITORING

FunctionEndHandled ==
    top_pair.tag = "function" /\ top_pair.scope = "end" /\ ~INACTIVE_MONITORING

IsReset(g) ==
    /\ g.static_qd_to_monitors = EmptyMap
    /\ g.verdict_report = EmptyMap
    /\ g.latest_time_of_call = None

(***************************************************************************)
(* C1: for the single-property function s, when the consumer has processed *)
(* function-start, then one trigger with bind_variable_index 0 and any     *)
(* number of instrument events (the group of h0 holds a start time, one    *)
(* monitor and no path label), processing function-end submits exactly one *)
(* function-call record and then exactly one verdict report.               *)
(***************************************************************************)
C1_OneRecordThenOneReport ==
    [][(/\ pc = "loop"
        /\ ~INACTIVE_MONITORING
        /\ function_to_maps["s"]["h0"].latest_time_of_call # None
        /\ function_to_maps["s"]["h0"].program_path = <<>>
        /\ Len(function_to_maps["s"]["h0"].static_qd_to_monitors[0])
             + Len(function_to_maps["s"]["h0"].static_qd_to_monitors[1]) = 1
        /\ top_pair' = EvFunction(<<"h0">>, "s", "end", clock))
       => (/\ Len(posted') = 2
           /\ posted'[1].kind = "insert_function_call_data"
           /\ posted'[2].kind = "register_verdicts")]_vars

(***************************************************************************)
(* C2: every verdict report submitted carries the function_id and the      *)
(* function_call_id that the function-call submission of the same          *)
(* function-end returned, and no verdict report is submitted when that     *)
(* submission did not succeed.                                             *)
(***************************************************************************)
C2_ReportsCarryIdsOfCall ==
    \A i \in DOMAIN posted :
        posted[i].kind = "register_verdicts" =>
            /\ posted[1].kind = "insert_function_call_data"
            /\ posted[1].ok
            /\ posted[i].function_id = posted[1].function_id
            /\ posted[i].function_call_id = posted[1].function_call_id

C2_Witness ==
    /\ FunctionEndHandled
    /\ Len(posted) = 3
    /\ posted[1].function_call_id = 2
    /\ posted[3].kind = "register_verdicts"
    /\ posted[3].function_call_id = 2

(***************************************************************************)
(* C3: a failure while handling an event does not stop the consumer: the   *)
(* thread is out of its loop only when the event it took last is           *)
(* end-monitoring.                                                         *)
(***************************************************************************)
C3_LoopExitsOnlyOnEndMonitoring ==
    pc # "loop" => top_pair.tag = "end-monitoring"

(***************************************************************************)
(* C4: when the transmission of a verdict report fails at function-end     *)
(* (the event names properties that have a PropertyMapGroup), the consumer *)
(* still posts one report per property of the list in the order of the     *)
(* list, resets the monitors, the verdict report and latest_time_of_call   *)
(* of each, and stays in its loop.                                         *)
(***************************************************************************)
C4_FailedReportIsSwallowed ==
    (/\ FunctionEndHandled
     /\ top_pair.fn \in Functions
     /\ Range(top_pair.hashes) \subseteq PropertiesOf(top_pair.fn)
     /\ \E i \in DOMAIN posted : posted[i].kind = "register_verdicts" /\ ~posted[i].ok)
    => /\ pc = "loop"
       /\ Len(posted) = 1 + Len(top_pair.hashes)
       /\ \A j \in DOMAIN top_pair.hashes :
             /\ posted[j + 1].kind = "register_verdicts"
             /\ posted[j + 1].property_hash = top_pair.hashes[j]
       /\ \A h \in Range(top_pair.hashes) : IsReset(function_to_maps[top_pair.fn][h])

C4_Witness ==
    /\ FunctionEndHandled
    /\ pc = "loop"
    /\ top_pair.hashes = <<"h1", "h2">>
    /\ Len(posted) = 3
    /\ ~posted[2].ok
    /\ posted[3].ok
    /\ IsReset(function_to_maps["f"]["h1"])

(***************************************************************************)
(* C5: while the consumer is paused, processing an event other than        *)
(* inactive-monitoring-stop leaves every PropertyMapGroup unchanged and    *)
(* submits nothing to the sink.                                            *)
(***************************************************************************)
C5_PausedLeavesMapsAlone ==
    [][(INACTIVE_MONITORING /\ top_pair'.tag # "inactive-monitoring-stop")
       => (function_to_maps' = function_to_maps /\ posted' = <<>>)]_vars

C5_Witness ==
    /\ INACTIVE_MONITORING
    /\ pc = "loop"
    /\ top_pair.tag = "function"
    /\ top_pair.scope = "start"
    /\ top_pair.hashes = <<"h1", "h2">>
    /\ function_to_maps["f"]["h1"].static_qd_to_monitors[0] # <<>>
    /\ function_to_maps["f"]["h1"].program_path # <<>>

(***************************************************************************)
(* C6 as stated: while the paused flag is set, every event other than      *)
(* inactive-monitoring-stop (end-monitoring and test_transaction included) *)
(* changes neither the paused flag, nor the stored transaction id, nor     *)
(* whether the loop keeps running.                                         *)
(***************************************************************************)
C6_PausedDiscardsEveryEvent ==
    [][(INACTIVE_MONITORING /\ top_pair'.tag # "inactive-monitoring-stop")
       => (/\ INACTIVE_MONITORING' = INACTIVE_MONITORING
           /\ transaction' = transaction
           /\ continue_monitoring' = continue_monitoring
           /\ pc' = pc)]_vars

(***************************************************************************)
(* C6 amended: while the paused flag is set, every event other than        *)
(* inactive-monitoring-stop leaves the paused flag and the stored          *)
(* transaction id unchanged; end-monitoring still ends the loop, and any   *)
(* other event leaves the loop running.                                    *)
(***************************************************************************)
C6_PausedDiscardsAllButEndMonitoring ==
    [][(INACTIVE_MONITORING /\ top_pair'.tag # "inactive-monitoring-stop")
       => (/\ INACTIVE_MONITORING'
           /\ transaction' = transaction
           /\ IF top_pair'.tag = "end-monitoring"
              THEN ~continue_monitoring' /\ pc' = "done"
              ELSE continue_monitoring' /\ pc' = "loop")]_vars

C6_Witness ==
    /\ INACTIVE_MONITORING
    /\ top_pair.tag = "end-monitoring"
    /\ pc = "done"
    /\ transaction = 41

(***************************************************************************)
(* C7: after a function-start event with property list L is processed,     *)
(* every property in L has an empty monitor map, an empty verdict report,  *)
(* an empty program_path and latest_time_of_call equal to the timestamp of *)
(* the event.                                                              *)
(***************************************************************************)
C7_StartResetsEveryProperty ==
    (FunctionStartHandled /\ pc = "loop")
    => \A h \in Range(top_pair.hashes) :
          /\ function_to_maps[top_pair.fn][h].static_qd_to_monitors = EmptyMap
          /\ function_to_maps[top_pair.fn][h].verdict_report = EmptyMap
          /\ function_to_maps[top_pair.fn][h].program_path = <<>>
          /\ function_to_maps[top_pair.fn][h].latest_time_of_call = top_pair.ts

(***************************************************************************)
(* C8, for a function-end processed right after a function-start of the    *)
(* same function that named all its properties: the function-call record   *)
(* submitted has time_of_call equal to the timestamp of that start,        *)
(* end_time_of_call equal to the timestamp of the end event, an empty      *)
(* program_path (no path event since the start) and transaction_time equal *)
(* to the stored transaction id.                                           *)
(***************************************************************************)
C8_CallRecordFields ==
    [][(/\ FunctionStartHandled
        /\ pc = "loop"
        /\ top_pair.fn \in Functions
        /\ Range(top_pair.hashes) = PropertiesOf(top_pair.fn)
        /\ top_pair'.tag = "function"
        /\ top_pair'.scope = "end"
        /\ top_pair'.fn = top_pair.fn
        /\ posted' # <<>>
        /\ posted'[1].ok)
       => (/\ posted'[1].kind = "insert_function_call_data"
           /\ posted'[1].function_name = top_pair.fn
           /\ posted'[1].time_of_call = top_pair.ts
           /\ posted'[1].end_time_of_call = top_pair'.ts
           /\ posted'[1].program_path = <<>>
           /\ posted'[1].transaction_time = transaction)]_vars

(***************************************************************************)
(* C9: the verdict report transmitted for a property at function-end       *)
(* holds, under each static_qd_index, one verdict per monitor of that      *)
(* bucket whose collapsing_atom_index is not None, in the order of the     *)
(* bucket, and nothing else.                                               *)
(***************************************************************************)
Collapsed(m) == m.coll # None

VerdictsOf(monitors) ==
    LET live == SelectSeq(monitors, Collapsed)
    IN  [k \in 1..Len(live) |-> [verdict |-> live[k].verdict, obs |-> live[k].obs,
                                  ppath |-> live[k].ppath, coll |-> live[k].coll]]

C9_OneVerdictPerCollapsedMonitor ==
    [][(/\ ~INACTIVE_MONITORING
        /\ top_pair'.tag = "function"
        /\ top_pair'.scope = "end")
       => \A i \in DOMAIN posted' :
             posted'[i].kind = "register_verdicts" =>
                \A q \in QdIndices :
                   posted'[i].verdicts[q] =
                       VerdictsOf(function_to_maps[top_pair'.fn][posted'[i].property_hash]
                                      .static_qd_to_monitors[q])]_vars

C9_Witness ==
    /\ FunctionEndHandled
    /\ Len(posted) = 2
    /\ posted[2].kind = "register_verdicts"
    /\ Len(posted[2].verdicts[0]) = 1
    /\ posted[2].verdicts[0][1].coll = 0
    /\ posted[2].verdicts[1] = <<>>

(***************************************************************************)
(* C10: after a function-end event is processed, every property named in   *)
(* the event has an empty monitor map, an empty verdict report and a None  *)
(* latest_time_of_call; a function-end processed right after it reports no *)
(* verdict for these properties.                                           *)
(***************************************************************************)
C10_EndResetsEveryProperty ==
    [][/\ (/\ ~INACTIVE_MONITORING
            /\ top_pair'.tag = "function"
            /\ top_pair'.scope = "end"
            /\ pc' = "loop")
           => \A h \in Range(top_pair'.hashes) : IsReset(function_to_maps'[top_pair'.fn][h])
       /\ (/\ FunctionEndHandled
            /\ top_pair'.tag = "function"
            /\ top_pair'.scope = "end"
            /\ top_pair'.fn = top_pair.fn)
           => \A i \in DOMAIN posted' :
                 (/\ posted'[i].kind = "register_verdicts"
                  /\ posted'[i].property_hash \in Range(top_pair.hashes))
                 => posted'[i].verdicts = EmptyMap]_vars

C10_Witness ==
    /\ FunctionEndHandled
    /\ pc = "loop"
    /\ top_pair.hashes = <<"h1", "h2">>
    /\ Len(posted) = 3
    /\ IsReset(function_to_maps["f"]["h1"])
    /\ IsReset(function_to_maps["f"]["h2"])

(***************************************************************************)
(* C11: a trigger event with bind_variable_index 0 appends exactly one     *)
(* fresh monitor at the end of the bucket of its static_qd_index; the      *)
(* monitors already in that bucket, every other bucket and the state of    *)
(* every other property are unchanged.                                     *)
(***************************************************************************)
TriggerHandled(k) ==
    top_pair.tag = "trigger" /\ top_pair.bind = k /\ ~INACTIVE_MONITORING

IsFresh(m) ==
    /\ Len(m.inst) = 1
    /\ \A a \in Atoms : m.state[a] = "none" /\ m.obs[a] = "none" /\ m.ppath[a] = None
    /\ m.coll = None
    /\ m.verdict = "none"

C11_TriggerZeroAppendsOneMonitor ==
    [][(/\ ~INACTIVE_MONITORING
        /\ top_pair'.tag = "trigger"
        /\ top_pair'.bind = 0
        /\ HasGroup(function_to_maps, top_pair'.fn, top_pair'.hash))
       => LET fn == top_pair'.fn
              h == top_pair'.hash
              q == top_pair'.qd
              before == function_to_maps[fn][h].static_qd_to_monitors[q]
              after == function_to_maps'[fn][h].static_qd_to_monitors[q]
          IN  /\ pc' = "loop"
              /\ Len(after) = Len(before) + 1
              /\ SubSeq(after, 1, Len(before)) = before
              /\ IsFresh(after[Len(after)])
              /\ [function_to_maps' EXCEPT ![fn][h].static_qd_to_monitors[q] = before]
                    = function_to_maps]_vars

C11_Witness ==
    /\ TriggerHandled(0)
    /\ pc = "loop"
    /\ top_pair.hash = "h1"
    /\ top_pair.qd = 0
    /\ Len(function_to_maps["f"]["h1"].static_qd_to_monitors[0]) = 2
    /\ function_to_maps["f"]["h1"].static_qd_to_monitors[0][1].obs[0] # "none"
    /\ IsFresh(function_to_maps["f"]["h1"].static_qd_to_monitors[0][2])

(***************************************************************************)
(* C12: a trigger event with bind_variable_index k > 0 creates exactly one *)
(* clone for each distinct length-k prefix found among the monitors of the *)
(* bucket whose timestamp sequence has length k + 1; the sequence of each  *)
(* clone is that prefix followed by the current time; the clones are       *)
(* appended after the existing monitors, whose number and order are        *)
(* unchanged.                                                              *)
(***************************************************************************)
LaterTriggerStep ==
    /\ ~INACTIVE_MONITORING
    /\ top_pair'.tag = "trigger"
    /\ top_pair'.bind > 0
    /\ HasGroup(function_to_maps, top_pair'.fn, top_pair'.hash)
    /\ function_to_maps[top_pair'.fn][top_pair'.hash].static_qd_to_monitors[top_pair'.qd] # <<>>

BucketBefore == function_to_maps[top_pair'.fn][top_pair'.hash].static_qd_to_monitors[top_pair'.qd]

BucketAfter == function_to_maps'[top_pair'.fn][top_pair'.hash].static_qd_to_monitors[top_pair'.qd]

PrefixesToClone ==
    {SubSeq(BucketBefore[i].inst, 1, top_pair'.bind) :
        i \in {j \in 1..Len(BucketBefore) : Len(BucketBefore[j].inst) = top_pair'.bind + 1}}

C12_OneClonePerDistinctPrefix ==
    [][LaterTriggerStep
       => /\ Len(BucketAfter) = Len(BucketBefore) + Cardinality(PrefixesToClone)
          /\ \A i \in 1..Len(BucketBefore) :
                /\ i <= Len(BucketAfter)
                /\ [BucketAfter[i] EXCEPT !.inst = BucketBefore[i].inst] = BucketBefore[i]
          /\ {BucketAfter[i].inst : i \in (Len(BucketBefore) + 1)..Len(BucketAfter)}
                = {Append(p, clock) : p \in PrefixesToClone}]_vars

(***************************************************************************)
(* C13: a trigger event with bind_variable_index k > 0 extends in place,   *)
(* to length k + 1 and with its first k entries unchanged, every monitor   *)
(* of the bucket whose timestamp sequence has length exactly k, and does   *)
(* not clone it; a monitor whose sequence has a length that is neither k   *)
(* nor k + 1 is unchanged.                                                 *)
(***************************************************************************)
C13_ShortMonitorsExtendedInPlace ==
    [][LaterTriggerStep
       => \A i \in 1..Len(BucketBefore) :
            /\ i <= Len(BucketAfter)
            /\ Len(BucketBefore[i].inst) = top_pair'.bind
                => /\ BucketAfter[i] = [BucketBefore[i] EXCEPT !.inst = Append(@, clock)]
                   /\ \A j \in (Len(BucketBefore) + 1)..Len(BucketAfter) :
                        SubSeq(BucketAfter[j].inst, 1, top_pair'.bind) = BucketBefore[i].inst
                            => BucketBefore[i].inst \in PrefixesToClone
            /\ Len(BucketBefore[i].inst) \notin {top_pair'.bind, top_pair'.bind + 1}
                => BucketAfter[i] = BucketBefore[i]]_vars

(***************************************************************************)
(* C14: when a trigger event with bind_variable_index k > 0 clones a       *)
(* monitor, the handler completes without error and, for every atom whose  *)
(* base variable is bound at a position below k, the clone holds the       *)
(* observation, program-path and state entries of the monitor it was       *)
(* cloned from.                                                            *)
(***************************************************************************)
C14_CloneCopiesEarlierAtoms ==
    [][(LaterTriggerStep /\ PrefixesToClone # {})
       => /\ pc' = "loop"
          /\ Len(BucketAfter) > Len(BucketBefore)
          /\ \A j \in (Len(BucketBefore) + 1)..Len(BucketAfter) :
                \E i \in 1..Len(BucketBefore) :
                    /\ Len(BucketBefore[i].inst) = top_pair'.bind + 1
                    /\ SubSeq(BucketBefore[i].inst, 1, top_pair'.bind)
                         = SubSeq(BucketAfter[j].inst, 1, top_pair'.bind)
                    /\ \A a \in Atoms :
                         BaseVariable(top_pair'.hash, a) < top_pair'.bind
                            => /\ BucketAfter[j].obs[a] = BucketBefore[i].obs[a]
                               /\ BucketAfter[j].ppath[a] = BucketBefore[i].ppath[a]
                               /\ BucketAfter[j].state[a] = BucketBefore[i].state[a]]_vars

(***************************************************************************)
(* C15: when a bucket holds the one monitor that a trigger with            *)
(* bind_variable_index 0 created after the function start, and that        *)
(* monitor has recorded an observation for an atom whose base variable is  *)
(* bound at index 0, a trigger with bind_variable_index 1 on that bucket   *)
(* leaves in the bucket a cloned monitor whose observation for that atom   *)
(* equals the source monitor's and whose timestamp sequence has length 2   *)
(* with the second timestamp later than the first.                         *)
(***************************************************************************)
C15_CloneAfterObservation ==
    [][(/\ LaterTriggerStep
        /\ top_pair'.bind = 1
        /\ Len(BucketBefore) = 1
        /\ Len(BucketBefore[1].inst) = 1
        /\ \E a \in Atoms : /\ BaseVariable(top_pair'.hash, a) = 0
                            /\ BucketBefore[1].obs[a] # "none")
       => \E j \in 2..Len(BucketAfter) :
            /\ \A a \in Atoms :
                 BaseVariable(top_pair'.hash, a) = 0
                    => BucketAfter[j].obs[a] = BucketBefore[1].obs[a]
            /\ Len(BucketAfter[j].inst) = 2
            /\ BucketAfter[j].inst[2] > BucketAfter[j].inst[1]]_vars

(***************************************************************************)
(* C16: an instrument event forwards its observation, for each             *)
(* (static_qd_index, instrumentation point) pair it lists, to every        *)
(* monitor of that bucket, with the current length of the property's       *)
(* program path; a bucket that is not listed receives nothing; a listed    *)
(* index that has no bucket is skipped and the handler goes on without     *)
(* error.                                                                  *)
(***************************************************************************)
C16_InstrumentForwardsToListedBuckets ==
    [][(/\ ~INACTIVE_MONITORING
        /\ top_pair'.tag = "instrument"
        /\ HasGroup(function_to_maps, top_pair'.fn, top_pair'.hash))
       => LET e == top_pair'
              g == function_to_maps[e.fn][e.hash]
              after == function_to_maps'[e.fn][e.hash].static_qd_to_monitors
              pairs == 1..(IF Len(e.qds) < Len(e.ids) THEN Len(e.qds) ELSE Len(e.ids))
          IN  /\ pc' = "loop"
              /\ \A q \in QdIndices :
                    /\ Len(after[q]) = Len(g.static_qd_to_monitors[q])
                    /\ \A n \in 1..Len(after[q]) :
                         after[q][n] =
                            IF Cardinality({i \in pairs : e.qds[i] = q}) = 1
                            THEN process_atom_and_value(g.static_qd_to_monitors[q][n], e.atom,
                                                        e.value, Len(g.program_path))
                            ELSE g.static_qd_to_monitors[q][n]
              /\ [function_to_maps' EXCEPT ![e.fn][e.hash].static_qd_to_monitors =
                                                g.static_qd_to_monitors]
                    = function_to_maps]_vars

C16_Witness ==
    /\ top_pair.tag = "instrument"
    /\ ~INACTIVE_MONITORING
    /\ pc = "loop"
    /\ top_pair.qds = <<0, 1>>
    /\ LET g == function_to_maps[top_pair.fn][top_pair.hash]
       IN  /\ Len(g.program_path) = 1
           /\ g.static_qd_to_monitors[0] = <<>>
           /\ Len(g.static_qd_to_monitors[1]) = 1
           /\ g.static_qd_to_monitors[1][1].obs[top_pair.atom] = Truth(top_pair.value)
           /\ g.static_qd_to_monitors[1][1].ppath[top_pair.atom] = 1

C18_ExitsAfterAllBeforeToken ==
    [][(/\ clock' # clock
        /\ pc = "loop"
        /\ pc' # "loop"
        /\ token_at > 0)
       => /\ \A i \in DOMAIN consumption_queue' : consumption_queue'[i].n >= token_at
          /\ last_got <= token_at]_vars

(***************************************************************************)
(* C19: when the connection to the verdict server failed at construction,  *)
(* a call of send_event, end_monitoring, pause_monitoring or               *)
(* resume_monitoring puts nothing on the queue and changes no monitoring   *)
(* state.                                                                  *)
(***************************************************************************)
C19_FailedInitialisationPutsNothing ==
    [][(initialisation_failure /\ calls' # calls)
       => /\ consumption_queue = <<>>
          /\ UNCHANGED <<consumption_queue, function_to_maps, pc, continue_monitoring,
                         INACTIVE_MONITORING, transaction, top_pair, maps, held, parked,
                         clock, posted, last_got, token_at, initialisation_failure>>]_vars

C19_Witness ==
    /\ initialisation_failure
    /\ Threads > 0
    /\ calls = 3
    /\ consumption_queue = <<>>
    /\ held = NoEntry
    /\ clock = 1

(***************************************************************************)
(* C20: at any time at most one consumption thread is draining the queue   *)
(* of the Verification object and handling events against its             *)
(* PropertyMapGroups, whatever calls of initialise, send_event and the     *)
(* control methods were made.                                              *)
(***************************************************************************)
C20_AtMostOneConsumer ==
    LiveThreads <= 1

(***************************************************************************)
(* C35, as stated: after the only consumption thread started has left its  *)
(* loop and marked its task done, having dequeued n >= 1 entries, the      *)
(* count of unfinished tasks of the queue is n - 1.                        *)
(***************************************************************************)
C35_UnfinishedIsDequeuedLessOne ==
    (Threads = 1 /\ pc = "returned") => unfinished_tasks = (clock - 1) - 1

(***************************************************************************)
(* C35: the count of unfinished tasks goes down only in the step a         *)
(* consumption thread takes after its loop has exited, and then by one, or *)
(* when initialise binds a new queue; it never goes down while the thread  *)
(* is in its loop.  After the only thread started has dequeued n >= 1      *)
(* entries, exited and marked its task done, the count is n - 1 plus the   *)
(* number of entries still on the queue.                                   *)
(***************************************************************************)
C35_TaskDoneOnceAfterLoop ==
    [][/\ unfinished_tasks' < unfinished_tasks
            => \/ /\ pc = "done"
                  /\ pc' = "returned"
                  /\ unfinished_tasks' = unfinished_tasks - 1
                  /\ UNCHANGED <<consumption_queue, clock, parked>>
               \/ /\ Threads' = Threads + 1
                  /\ unfinished_tasks' = 0
       /\ (Threads' = 1 /\ pc' = "returned")
            => /\ clock' >= 2
               /\ unfinished_tasks' = (clock' - 1) - 1 + Len(consumption_queue')]_vars

C35_Witness ==
    /\ Threads = 1
    /\ pc = "returned"
    /\ clock = 4
    /\ unfinished_tasks = 2
    /\ consumption_queue = <<>>

(***************************************************************************)
(* C37: whenever a function-end event of a known function is handled, all  *)
(* PropertyMapGroups of that function hold the same latest_time_of_call    *)
(* and the same program_path, so that the function-call record built from  *)
(* the group of the first key is the one any other group would give.       *)
(***************************************************************************)
C37_GroupsAgreeAtFunctionEnd ==
    [][(/\ clock' # clock
        /\ ~INACTIVE_MONITORING
        /\ top_pair'.tag = "function"
        /\ top_pair'.scope = "end"
        /\ top_pair'.fn \in Functions)
       => \A g, h \in PropertiesOf(top_pair'.fn) :
             /\ function_to_maps[top_pair'.fn][g].latest_time_of_call
                   = function_to_maps[top_pair'.fn][h].latest_time_of_call
             /\ function_to_maps[top_pair'.fn][g].program_path
                   = function_to_maps[top_pair'.fn][h].program_path]_vars

(***************************************************************************)
(* C38: an inactive-monitoring-stop event handled while monitoring is not  *)
(* paused, and an inactive-monitoring-start event handled while it is      *)
(* paused, leave the paused flag and every PropertyMapGroup unchanged, and *)
(* the consumption thread stays in its loop for the next event.            *)
(***************************************************************************)
C38_RedundantControlEventIgnored ==
    [][(/\ clock' # clock
        /\ \/ top_pair'.tag = "inactive-monitoring-stop" /\ ~INACTIVE_MONITORING
           \/ top_pair'.tag = "inactive-monitoring-start" /\ INACTIVE_MONITORING)
       => /\ INACTIVE_MONITORING' = INACTIVE_MONITORING
          /\ function_to_maps' = function_to_maps
          /\ continue_monitoring'
          /\ pc' = "loop"]_vars

(***************************************************************************)
(* Properties of the CFG.  InEdges: the edge identities in self.edges;     *)
(* InVertices: the vertex identities in self.vertices.                     *)
(***************************************************************************)
InEdges == {edges[i] : i \in DOMAIN edges}

InVertices == {vertices[i] : i \in DOMAIN vertices}

Constructs(kinds) == {constructs[i] : i \in {j \in DOMAIN constructs : constructs[j].kind \in kinds}}

(***************************************************************************)
(* C21: in every CFG that process_block has produced, every edge of the    *)
(* edges list has a source state and a target state that are both members  *)
(* of the vertices list.                                                   *)
(***************************************************************************)
C21_EdgesJoinVertices ==
    Produced => \A e \in InEdges : /\ edge_objs[e].source \in InVertices
                                   /\ edge_objs[e].target \in InVertices

C21_Witness ==
    /\ Produced
    /\ Constructs({"for"}) # {}
    /\ Constructs({"if"}) # {}
    /\ Len(edges) >= 6

(***************************************************************************)
(* C22: at every point during process_block, every edge that is in the     *)
(* edges list has its source state and its target state set.               *)
(***************************************************************************)
C22_EdgesLinkedBeforePublished ==
    \A e \in InEdges : edge_objs[e].source # 0 /\ edge_objs[e].target # 0

(***************************************************************************)
(* C23: the previous_edge of every vertex is null or is an edge whose      *)
(* target state is that vertex; this holds for a loop vertex that the      *)
(* loop-jump edges are directed back to and for a merge vertex that        *)
(* several edges are directed to.                                          *)
(***************************************************************************)
C23_PreviousEdgeTargetsVertex ==
    \A v \in DOMAIN vertex_objs :
        \/ vertex_objs[v].previous_edge = 0
        \/ /\ vertex_objs[v].previous_edge \in DOMAIN edge_objs
           /\ edge_objs[vertex_objs[v].previous_edge].target = v

C23_Witness ==
    /\ Produced
    /\ \E v \in DOMAIN vertex_objs :
          /\ vertex_objs[v].name = "loop"
          /\ edge_objs[vertex_objs[v].previous_edge].instruction = "loop-jump"
    /\ \E v \in DOMAIN vertex_objs :
          /\ vertex_objs[v].name = "post-conditional"
          /\ Cardinality({e \in DOMAIN edge_objs : edge_objs[e].target = v}) >= 2

(***************************************************************************)
(* C24: for every if statement without a final else, the edges list holds  *)
(* an edge from the conditional vertex directly to the post-conditional    *)
(* vertex of that statement.                                               *)
(***************************************************************************)
C24_FallThroughEdge ==
    \A c \in Constructs({"if"}) :
        ~c.has_else => /\ c.merge # 0
                       /\ vertex_objs[c.head].post = c.merge
                       /\ \E e \in InEdges : /\ edge_objs[e].source = c.head
                                             /\ edge_objs[e].target = c.merge

C24_Witness ==
    \E c \in Constructs({"if"}) :
        /\ ~c.has_else
        /\ Len(c.terms) = 2
        /\ AllTrue(c.terms)
        /\ Cardinality({e \in InEdges : edge_objs[e].target = c.merge}) = 1

(***************************************************************************)
(* C25: no vertex that a return or raise edge is directed to has an        *)
(* outgoing edge whose target is a post-conditional or post-try-catch      *)
(* vertex.                                                                 *)
(***************************************************************************)
C25_NoMergeAfterReturn ==
    \A e \in DOMAIN edge_objs :
        (edge_objs[e].instruction \in {"return", "raise"} /\ edge_objs[e].target # 0)
            => \A i \in DOMAIN vertex_objs[edge_objs[e].target].edges :
                  LET out == vertex_objs[edge_objs[e].target].edges[i]
                  IN  \/ edge_objs[out].target = 0
                      \/ NameOfTarget(out) \notin {"post-conditional", "post-try-catch"}

(***************************************************************************)
(* The vertices created while the branches of an if or try were processed  *)
(* (between its head and its merge vertex), and the vertices reachable     *)
(* from a set of vertices along the outgoing edges of given vertices.      *)
(***************************************************************************)
BranchVertices(c) == {v \in DOMAIN vertex_objs : c.head < v /\ v < c.merge}

RECURSIVE ReachableThrough(_, _)
ReachableThrough(from, through) ==
    LET next == from \cup {t \in DOMAIN vertex_objs :
                              \E v \in from \cap through :
                                 \E i \in DOMAIN vertex_objs[v].edges :
                                    edge_objs[vertex_objs[v].edges[i]].target = t}
    IN  IF next = from THEN from ELSE ReachableThrough(next, through)

(***************************************************************************)
(* C26: for every if and try with a merge vertex, and every return or      *)
(* raise edge directed to a vertex of one of its branches, the merge       *)
(* vertex is not reachable from that vertex through the vertices of the    *)
(* branches, whatever statements follow the return or raise in the body.   *)
(***************************************************************************)
C26_MergeUnreachableAfterReturn ==
    \A c \in Constructs({"if", "try"}) :
        c.merge # 0 =>
            \A e \in DOMAIN edge_objs :
                (/\ edge_objs[e].instruction \in {"return", "raise"}
                 /\ edge_objs[e].target \in BranchVertices(c))
                    => c.merge \notin ReachableThrough({edge_objs[e].target}, BranchVertices(c))

\* the edges in the edges attribute of a vertex
OutgoingOf(v) == {vertex_objs[v].edges[i] : i \in DOMAIN vertex_objs[v].edges}

C28_GrammarDerived ==
    final_map.result # "none" =>
        /\ final_map.result = "returned"
        /\ \A v \in InVertices : v \in DOMAIN final_map.rules

\* some branch of the statement, or its fall-through, does not end in a return or raise
SomeBranchFallsThrough(c) ==
    \/ \E i \in DOMAIN c.terms : ~c.terms[i]
    \/ c.kind = "if" /\ ~c.has_else

(***************************************************************************)
(* C29: for every if and every try processed, a merge vertex is created    *)
(* and recorded on the head exactly when at least one branch (the          *)
(* fall-through of an if without else counted as a branch) does not end in *)
(* a return or raise; otherwise the merge attribute of the head is None    *)
(* and no merge vertex is added.                                           *)
(***************************************************************************)
C29_MergeIffSomeBranchFallsThrough ==
    \A c \in Constructs({"if", "try"}) :
        IF SomeBranchFallsThrough(c)
        THEN /\ c.merge # 0
             /\ vertex_objs[c.head].post = c.merge
             /\ vertex_objs[c.merge].name \in {"post-conditional", "post-try-catch"}
        ELSE /\ c.merge = 0
             /\ vertex_objs[c.head].post = 0

\* the edges that the head gained while the i-th branch was processed
EdgesOfBranch(c, i) == c.entries[i] - (IF i = 1 THEN 0 ELSE c.entries[i - 1])

(***************************************************************************)
(* C30: every conditional vertex has at least one outgoing edge for the if *)
(* body, one for each elif, and one for the else body or, without else,    *)
(* the fall-through; every try-catch vertex has at least one outgoing edge *)
(* for the try body and one for each handler.  (entries[i] is the number   *)
(* of outgoing edges of the head when the i-th branch had been processed.) *)
(***************************************************************************)
C30_HeadHasEdgePerBranch ==
    \A c \in Constructs({"if", "try"}) :
        /\ \A i \in DOMAIN c.entries : EdgesOfBranch(c, i) >= 1
        /\ (c.kind = "if" /\ ~c.has_else) =>
              \E e \in OutgoingOf(c.head) :
                 /\ edge_objs[e].target = c.merge
                 /\ edge_objs[e].instruction = "control-flow"
        /\ Len(vertex_objs[c.head].edges) >=
              Len(c.entries) + (IF c.kind = "if" /\ ~c.has_else THEN 1 ELSE 0)
        /\ c.kind = "try" => Len(c.entries) >= 2

C30_Witness ==
    /\ \E c \in Constructs({"if"}) : ~c.has_else /\ Len(vertex_objs[c.head].edges) = 2
    /\ \E c \in Constructs({"try"}) : Len(c.entries) = 2 /\ Len(vertex_objs[c.head].edges) = 2

(***************************************************************************)
(* C31: the condition recorded on an edge never changes after the edge is  *)
(* constructed: no step, the appends of skip-conditional, skip-try-catch   *)
(* and skip-for-loop included, alters the condition of an edge constructed *)
(* earlier or a list that was passed as condition to an activation of      *)
(* process_block.                                                          *)
(***************************************************************************)
C31_ConditionsKept ==
    [][/\ \A e \in DOMAIN edge_objs :
             /\ edge_objs'[e].condition = edge_objs[e].condition
             /\ edge_objs[e].condition.list # 0 =>
                   lists'[edge_objs[e].condition.list] = lists[edge_objs[e].condition.list]
       /\ \A i \in DOMAIN stack : lists'[stack[i].passed] = lists[stack[i].passed]]_vars

C31_Witness ==
    /\ Len(stack) = 1
    /\ lists[Top.passed] = <<>>
    /\ \E e1, e2 \in InEdges :
          /\ edge_objs[e1].instruction \in SimpleKinds
          /\ edge_objs[e2].instruction \in SimpleKinds
          /\ edge_objs[e1].condition.list # 0
          /\ edge_objs[e2].condition.list # 0
          /\ e1 < e2
          /\ lists[edge_objs[e1].condition.list] = <<>>
          /\ lists[edge_objs[e2].condition.list] = <<"skip-conditional">>

(***************************************************************************)
(* C32: in the grammar that derive_grammar returns, every outgoing edge of *)
(* a vertex is the first symbol of one of the rules of that vertex.        *)
(***************************************************************************)
C32_RulesCoverOutgoingEdges ==
    final_map.result = "returned" =>
        \A v \in InVertices : \A e \in OutgoingOf(v) :
            \E i \in DOMAIN final_map.rules[v] : final_map.rules[v][i][1] = Edge(e)

\* a post-conditional vertex that ends the body of a for statement: its first
\* outgoing edge is the loop-jump edge back to the loop vertex
LeadsBackIntoLoop(v) ==
    /\ vertex_objs[v].edges # <<>>
    /\ edge_objs[vertex_objs[v].edges[1]].instruction = "loop-jump"
    /\ NameOfTarget(vertex_objs[v].edges[1]) = "loop"

(***************************************************************************)
(* C33: for a post-conditional vertex with an outgoing edge,               *)
(* derive_grammar yields the two rules [edge, loop vertex] and [edge]      *)
(* exactly when the vertex ends a loop body and leads back into its loop,  *)
(* and otherwise the single rule [edge, target] or [edge]; a               *)
(* post-conditional vertex followed by a for statement gets the single     *)
(* rule, so derive_grammar raises nothing for such a vertex.               *)
(***************************************************************************)
C33_PostConditionalRules ==
    \A v \in InVertices :
        (vertex_objs[v].name = "post-conditional" /\ vertex_objs[v].edges # <<>>) =>
            LET es == vertex_objs[v].edges
            IN  /\ final_map.result = "IndexError" => PostConditionalRule(es) # Raised
                /\ final_map.result = "returned" =>
                      IF LeadsBackIntoLoop(v)
                      THEN /\ Len(es) >= 2
                           /\ final_map.rules[v] =
                                 <<<<Edge(es[1]), Vertex(TargetOf(es[1]))>>, <<Edge(es[2])>>>>
                      ELSE final_map.rules[v] \in
                              {<<<<Edge(es[1]), Vertex(TargetOf(es[1]))>>>>, <<<<Edge(es[1])>>>>}

\* the number of times the loop of line 738 was begun for the vertex
Expansions(v) == Cardinality({i \in DOMAIN search.expanded : search.expanded[i] = v})

(***************************************************************************)
(* C34: an invocation of next_calls with new accumulators terminates on    *)
(* every CFG, cycles through loop-jump edges and nested loops included,    *)
(* and begins the loop over the outgoing edges of each vertex at most      *)
(* once.                                                                   *)
(***************************************************************************)
C34_SearchTerminates ==
    /\ [](\A v \in DOMAIN vertex_objs : Expansions(v) <= 1)
    /\ [](search.frames # <<>> => Running.vertex \in DOMAIN vertex_objs)
    /\ (search.frames # <<>>) ~> (search.frames = <<>>)

C34_Witness ==
    /\ search.invocations = 1
    /\ search.frames = <<>>
    /\ Cardinality(Constructs({"for"})) = 2
    /\ \E e \in DOMAIN edge_objs : edge_objs[e].instruction = "loop-jump"
    /\ Len(search.marked_vertices) = Len(vertex_objs)
    /\ search.steps > 2 * Len(vertex_objs)

(***************************************************************************)
(* C36: in the CFG that process_block produced, every edge in the outgoing *)
(* list of a vertex is a member of the edges list of the CFG, and every    *)
(* member of the edges list is in the outgoing list of its source vertex;  *)
(* the loop-skip edge of a for statement is no exception.                  *)
(***************************************************************************)
C36_OutgoingListsAgreeWithEdges ==
    Produced =>
        /\ \A v \in DOMAIN vertex_objs : OutgoingOf(v) \subseteq InEdges
        /\ \A e \in InEdges :
              /\ edge_objs[e].source \in DOMAIN vertex_objs
              /\ e \in OutgoingOf(edge_objs[e].source)

(***************************************************************************)
(* C39: in the CFG that process_block produced, every vertex other than    *)
(* the start vertex is the target of an edge and is reachable from the     *)
(* start vertex along outgoing edges; this holds as well for the vertex of *)
(* a statement that follows an if or try all of whose branches end in a    *)
(* return or raise.                                                        *)
(***************************************************************************)
C39_EveryVertexReachable ==
    Produced =>
        \A v \in InVertices \ {1} :
            /\ \E e \in DOMAIN edge_objs : edge_objs[e].target = v
            /\ v \in ReachableThrough({1}, DOMAIN vertex_objs)

(***************************************************************************)
(* C40: for every if processed, every statement of its else clause was in  *)
(* a block given to process_block, and so became the instruction of an     *)
(* edge: where the else clause begins with a nested if and further         *)
(* statements follow it, those statements are processed as part of the     *)
(* else branch too.                                                        *)
(***************************************************************************)
C40_ElseBodyProcessed ==
    \A c \in Constructs({"if"}) : c.unprocessed = 0

====
